---- MODULE Spec2Model ----
(***************************************************************************)
(* llm-compiler: the program that internal/generator emits for a set of    *)
(* workflows, run as a state machine.  One task per workflow executes its  *)
(* steps in order; tasks coordinate through the signal map (one buffered   *)
(* channel of capacity 1 per key); main waits for all tasks, closes the    *)
(* local inference runtimes and dumps contexts and signal values.          *)
(*                                                                         *)
(* WorkerSpec is the subprocess worker: concurrent SendRequest calls on one *)
(* client, its background reader, and the worker server's loop.            *)
(* LlamaSpec is in-process inference (model cache, prediction mutex),      *)
(* ProcSpec the spawning of worker processes, SanitizeSpec the sanitizer   *)
(* of model output, CompileSpec validation followed by generation,         *)
(* RemoteSpec model-path resolution through the worker, PoolSpec the       *)
(* worker pool, BuildSpec concurrent builds of generated code.  RunSpec is *)
(* Spec with every runnable goroutine scheduled.                           *)
(*                                                                         *)
(* Text values (command output, model output, templates, conditions) are   *)
(* sequences of one-character strings; names and signal keys are strings.  *)
(***************************************************************************)
EXTENDS Integers, Sequences, FiniteSets, TLC

VARIABLES
    wfs,           \* the workflow set the program was generated from
    cur,           \* per task: 1-based index of the step it is at
    phase,         \* per task: "start" | "wait" | "shell" | "llm" | "done" | "failed"
    ctx,           \* per task: ctx.Vars, the workflow's variable map
    timer,         \* per task at a wait gate: seconds left on time.After
    rendered,      \* per task: the command or prompt text last rendered
    signals,       \* key -> contents of the capacity-1 channel
    signalValues,  \* key -> last message passed to send
    contexts,      \* prefixed workflow key -> final ctx.Vars
    mainPc,        \* main goroutine: "wait" | "close" | "dump" | "done"
    closedLlamas,  \* tasks whose local inference runtime main has closed
    artifact,      \* the dumped JSON object, or NoArtifact
    exited,        \* the process ended through log.Fatalf (os.Exit(1))
    sendLog,       \* history: every call of send, in order, as <<key, msg>>
    recvLog,       \* history: every message a wait gate took, as [w, i, key, msg]
    dispatched,    \* history: steps whose execution body was entered, as <<w, i>>
    skipped,       \* history: steps whose `if` evaluated false, as <<w, i>>
    failure,       \* history: per task, how it failed ("" while it has not)
    idCounter,     \* worker client: Client.idCounter
    pending,       \* worker client: Client.pending, request id -> waiting call
    call,          \* per SendRequest call: [pc, id, long, ch, ret]
    stdin,         \* request frames written to the worker and not yet scanned
    stdinClosed,   \* Client.Close has closed the worker's standard input
    stdout,        \* frames the worker wrote and the client has not yet decoded
    serverPc,      \* worker server: "scan" | "serve" | "exited"
    serving,       \* worker server: the request being served
    readerPc,      \* Client.readLoop: "run" | "eof" | "decode_error"
    reqLog,        \* history: every request frame written, in order
    respLog,       \* history: every frame put on the worker's standard output
    closePc,       \* Client.Close: "idle" | "waiting" (in cmd.Wait) | "returned"
    \* --- in-process inference (LocalLlamaRuntime) ---
    genPc,         \* per task: "idle" | "load" (in llama.LoadModel) |
                   \* "lock" (at predictMu.Lock) | "predict"
    genPath,       \* per task: the absolute path llama.LoadModel is loading
    genCalls,      \* per task: Generate calls begun
    genModel,      \* per task: the handle LoadModel returned to the call in progress
    models,        \* per task's runtime: r.models, absolute path -> handle
    loaded,        \* history: absolute path of every llama.LoadModel that succeeded
    predictMu,     \* 0 when free, else the task holding it
    \* --- processes of one run ---
    procs,         \* every process started: its environment, its parent (0 for
                   \* the one the user started), the runtimes it has created
    \* --- sanitizer ---
    sanitized,     \* a model result, followed by what SanitizeForShell makes of
                   \* it and of its own output
    \* --- compiler ---
    compile,       \* one call of Compile: where it is, its workflows, its
                   \* error, the program it generated
    \* --- inference through the worker ---
    remote,        \* one Generate call served by the worker: the spec given,
                   \* the path the parent resolved, the path the worker resolved
    \* --- worker pool ---
    pool,          \* one Pool: its current index, the goroutines inside Get,
                   \* the clients handed out so far
    \* --- build ---
    build          \* concurrent BuildFromCode calls and the files they touch

\* the worker client and server
workerVars == <<idCounter, pending, call, stdin, stdinClosed, stdout, serverPc,
                serving, readerPc, reqLog, respLog, closePc>>

\* the generated program
programVars == <<wfs, cur, phase, ctx, timer, rendered, signals, signalValues,
                 contexts, mainPc, closedLlamas, artifact, exited, sendLog,
                 recvLog, dispatched, skipped, failure>>

llamaVars == <<genPc, genPath, genCalls, genModel, models, loaded, predictMu>>

\* everything outside the generated program, and everything outside the worker
pureVars == <<sanitized, compile, remote, pool, build>>

nonSanitizeVars == <<programVars, workerVars, llamaVars, procs, compile, remote,
                     pool, build>>
nonCompileVars == <<programVars, workerVars, llamaVars, procs, sanitized, remote,
                    pool, build>>
nonRemoteVars == <<programVars, workerVars, llamaVars, procs, sanitized, compile,
                   pool, build>>
nonPoolVars == <<programVars, workerVars, llamaVars, procs, sanitized, compile,
                 remote, build>>
nonBuildVars == <<programVars, workerVars, llamaVars, procs, sanitized, compile,
                  remote, pool>>

nonProgramVars == <<workerVars, llamaVars, procs, pureVars>>
nonWorkerVars == <<programVars, llamaVars, procs, pureVars>>
nonLlamaVars == <<programVars, workerVars, procs, pureVars>>
nonProcVars == <<programVars, workerVars, llamaVars, pureVars>>

vars == <<programVars, workerVars, llamaVars, procs, pureVars>>

-----------------------------------------------------------------------------
(* Text helpers (Go's strings package on the characters the model uses).   *)

Space == {" ", "\t", "\n", "\r"}

\* [a-zA-Z0-9_.]
KeyChar ==
    {"a", "b", "c", "d", "e", "f", "g", "h", "i", "j", "k", "l", "m", "n", "o",
     "p", "q", "r", "s", "t", "u", "v", "w", "x", "y", "z",
     "A", "B", "C", "D", "E", "F", "G", "H", "I", "J", "K", "L", "M", "N", "O",
     "P", "Q", "R", "S", "T", "U", "V", "W", "X", "Y", "Z",
     "0", "1", "2", "3", "4", "5", "6", "7", "8", "9", "_", "."}

RECURSIVE Join(_)
\* string(chars): the Go string a character sequence stands for
Join(cs) == IF cs = <<>> THEN "" ELSE Head(cs) \o Join(Tail(cs))

RECURSIVE TrimLeft(_, _)
TrimLeft(cs, cut) ==
    IF cs # <<>> /\ Head(cs) \in cut THEN TrimLeft(Tail(cs), cut) ELSE cs

RECURSIVE TrimRight(_, _)
TrimRight(cs, cut) ==
    IF cs # <<>> /\ cs[Len(cs)] \in cut
    THEN TrimRight(SubSeq(cs, 1, Len(cs) - 1), cut)
    ELSE cs

\* strings.Trim(s, cutset)
Trim(cs, cut) == TrimRight(TrimLeft(cs, cut), cut)

\* strings.TrimSpace
TrimSpace(cs) == Trim(cs, Space)

HasPrefix(cs, pre) == Len(cs) >= Len(pre) /\ SubSeq(cs, 1, Len(pre)) = pre

HasSuffix(cs, suf) ==
    Len(cs) >= Len(suf) /\ SubSeq(cs, Len(cs) - Len(suf) + 1, Len(cs)) = suf

\* strings.Index: 0-based position of the first occurrence of sub, or -1
Index(cs, sub) ==
    LET hits == {i \in 1..(Len(cs) - Len(sub) + 1) :
                    SubSeq(cs, i, i + Len(sub) - 1) = sub}
    IN IF hits = {} THEN -1
       ELSE (CHOOSE i \in hits : \A j \in hits : i <= j) - 1

\* the longest prefix of cs made of characters of class
RECURSIVE SpanOf(_, _)
SpanOf(cs, class) ==
    IF cs # <<>> /\ Head(cs) \in class
    THEN <<Head(cs)>> \o SpanOf(Tail(cs), class)
    ELSE <<>>

Drop(cs, n) == SubSeq(cs, n + 1, Len(cs))

-----------------------------------------------------------------------------
(* Runtime helpers linked into the generated program.                      *)

\* Context.Get: a missing key reads as the empty string
Get(m, k) == IF k \in DOMAIN m THEN m[k] ELSE <<>>

\* Context.Set: last write wins
Set(m, k, v) == [x \in DOMAIN m \cup {k} |-> IF x = k THEN v ELSE m[x]]

\* bareVarRe without the dot in its character class: `{{\s*([a-zA-Z0-9_]+)\s*}}`
MatchVarNoDot(cs) ==
    IF ~HasPrefix(cs, <<"{", "{">>) THEN [ok |-> FALSE, key |-> <<>>, len |-> 0]
    ELSE LET a   == SubSeq(cs, 3, Len(cs))
             ws1 == SpanOf(a, Space)
             b   == SubSeq(a, Len(ws1) + 1, Len(a))
             key == SpanOf(b, KeyChar \ {"."})
             c   == SubSeq(b, Len(key) + 1, Len(b))
             ws2 == SpanOf(c, Space)
             d   == SubSeq(c, Len(ws2) + 1, Len(c))
         IN IF key # <<>> /\ HasPrefix(d, <<"}", "}">>)
            THEN [ok |-> TRUE, key |-> key,
                  len |-> 2 + Len(ws1) + Len(key) + Len(ws2) + 2]
            ELSE [ok |-> FALSE, key |-> <<>>, len |-> 0]

\* One match of bareVarRe `{{\s*([a-zA-Z0-9_.]+)\s*}}` at the start of cs:
\* the captured key and the length of the match, or ok = FALSE.
MatchVar(cs) ==
    IF ~HasPrefix(cs, <<"{", "{">>) THEN [ok |-> FALSE, key |-> <<>>, len |-> 0]
    ELSE LET a   == Drop(cs, 2)
             ws1 == SpanOf(a, Space)
             b   == Drop(a, Len(ws1))
             key == SpanOf(b, KeyChar)
             c   == Drop(b, Len(key))
             ws2 == SpanOf(c, Space)
             d   == Drop(c, Len(ws2))
         IN IF key # <<>> /\ HasPrefix(d, <<"}", "}">>)
            THEN [ok |-> TRUE, key |-> key,
                  len |-> 2 + Len(ws1) + Len(key) + Len(ws2) + 2]
            ELSE [ok |-> FALSE, key |-> <<>>, len |-> 0]

RECURSIVE RenderTemplate(_, _)
\* RenderTemplate: every {{key}} is rewritten to {{ index . "key" }} and the
\* template executed against vars, so each reference becomes vars[key] (empty
\* when missing) and all other text is copied.  Templates of the model hold
\* no other template action.
RenderTemplate(input, m) ==
    IF input = <<>> THEN <<>>
    ELSE LET mv == MatchVar(input)
         IN IF mv.ok
            THEN Get(m, Join(mv.key)) \o RenderTemplate(Drop(input, mv.len), m)
            ELSE <<Head(input)>> \o RenderTemplate(Tail(input), m)

\* EvalCondition: `{{var}} == 'literal'`; anything else is unsupported and false
EvalCondition(m, condition) ==
    LET cond == TrimSpace(condition)
        at   == Index(cond, <<"=", "=">>)
    IN IF at < 0 THEN FALSE
       ELSE LET left  == TrimSpace(SubSeq(cond, 1, at))
                right == TrimSpace(Drop(cond, at + 2))
            IN IF HasPrefix(left, <<"{", "{">>) /\ HasSuffix(left, <<"}", "}">>)
               THEN LET varName  == TrimSpace(SubSeq(left, 3, Len(left) - 2))
                        leftVal  == Get(m, Join(varName))
                        rightVal == Trim(right, {"\"", "'"})
                    IN leftVal = rightVal
               ELSE FALSE

RECURSIVE CollapseSpace(_)
\* regexp `\s+` replaced by one space
CollapseSpace(cs) ==
    IF cs = <<>> THEN <<>>
    ELSE IF Head(cs) \in Space
         THEN <<" ">> \o CollapseSpace(TrimLeft(cs, Space))
         ELSE <<Head(cs)>> \o CollapseSpace(Tail(cs))

RECURSIVE EscapeQuotes(_)
EscapeQuotes(cs) ==
    IF cs = <<>> THEN <<>>
    ELSE IF Head(cs) = "\""
         THEN <<"\\", "\"">> \o EscapeQuotes(Tail(cs))
         ELSE <<Head(cs)>> \o EscapeQuotes(Tail(cs))

\* the NUL byte, which a TLA+ string cannot hold, is the character "NUL"
SanitizeForShell(cs) ==
    IF cs = <<>> THEN cs
    ELSE EscapeQuotes(TrimSpace(CollapseSpace(SelectSeq(cs, LAMBDA ch : ch # "NUL"))))

-----------------------------------------------------------------------------
(* Identifiers computed by the generator.                                  *)

\* prefixedWorkflowName; wfIdx is 0-based as in the source
prefixedWorkflowName(wfIdx, name) == ToString(wfIdx + 1) \o "_" \o name

\* prefixedStepKey; wfIdx and stepIdx are 0-based as in the source
prefixedStepKey(wfKey, wfIdx, stepIdx, totalSteps, stepName) ==
    wfKey \o "." \o ToString(wfIdx + 1) \o "_" \o ToString(stepIdx + 1)
          \o "/" \o ToString(totalSteps) \o "_" \o stepName

\* the signal key of step i of workflow w (both 1-based) of the set ws
StepKey(ws, w, i) ==
    prefixedStepKey(prefixedWorkflowName(w - 1, ws[w].Name), w - 1, i - 1,
                    Len(ws[w].Steps), ws[w].Steps[i].Name)

WfKey(ws, w) == prefixedWorkflowName(w - 1, ws[w].Name)

OriginalKey(ws, w, i) == ws[w].Name \o "." \o ws[w].Steps[i].Name

StepIds(ws) ==
    UNION {{<<w, i>> : i \in 1..Len(ws[w].Steps)} : w \in 1..Len(ws)}

\* stepKeyMap: source-form key -> prefixed key; a later step overwrites an
\* earlier one with the same source-form key
stepKeyMap(ws) ==
    LET ids  == StepIds(ws)
        keys == {OriginalKey(ws, id[1], id[2]) : id \in ids}
        last(k) == CHOOSE id \in ids :
                      /\ OriginalKey(ws, id[1], id[2]) = k
                      /\ \A o \in ids : OriginalKey(ws, o[1], o[2]) = k =>
                            (o[1] < id[1] \/ (o[1] = id[1] /\ o[2] <= id[2]))
    IN [k \in keys |-> StepKey(ws, last(k)[1], last(k)[2])]

\* the key a wait gate receives on: the mapped key, or the reference itself
waitForKey(ws, waitFor) ==
    IF waitFor \in DOMAIN stepKeyMap(ws) THEN stepKeyMap(ws)[waitFor] ELSE waitFor

\* which execution bodies the generator emits for a step
HasShellBody(step) == step.Type = "shell" \/ step.Command # <<>>
HasLLMBody(step) ==
    step.Type = "llm" \/ step.Type = "local_llm" \/ step.Prompt # <<>>

\* hasLocal: the task creates and registers a local inference runtime
hasLocal(wf) == \E i \in 1..Len(wf.Steps) : wf.Steps[i].Type = "local_llm"

-----------------------------------------------------------------------------
(* The workflow sets the model runs: a producer workflow "p" of one or two *)
(* steps and a consumer workflow "c" of one or two steps, whose steps may  *)
(* wait for a step of "p", carry an `if`, and declare an output or not.    *)

\* seconds of a nonzero wait_timeout
WaitSecs == 1

\* capacity of a signal channel: make(chan signalMsg, 1)
ChanCap == 1

NoArtifact == [written |-> FALSE]
Null == "null"
EmptyMap == [k \in {} |-> <<>>]

WorkflowStep(name, type, command, prompt, output, cond, waitFor, waitTimeout) ==
    [Name |-> name, Type |-> type, Command |-> command, Prompt |-> prompt,
     Output |-> output, If |-> cond, WaitFor |-> waitFor,
     WaitTimeout |-> waitTimeout]

\* the characters of the source-form keys and variable names templates use
KeyText(k) ==
    CASE k = "p.s1" -> <<"p", ".", "s", "1">>
      [] k = "p.s2" -> <<"p", ".", "s", "2">>
      [] k = "x"    -> <<"x">>
      [] k = "y"    -> <<"y">>
      [] k = "mode" -> <<"m", "o", "d", "e">>
      [] OTHER      -> <<"z">>

\* `e {{k}}`: a command or prompt that embeds variable k
Embed(k) == <<"e", " ", "{", "{">> \o KeyText(k) \o <<"}", "}">>

\* `{{k}} == 'lit'`
CondEq(k, lit) ==
    <<"{", "{">> \o KeyText(k) \o <<"}", "}", " ", "=", "=", " ", "'">>
        \o lit \o <<"'">>

\* execution bodies of a producer step writing variable out
BodyKinds == {"shell_out", "shell", "llm_out", "llm", "local_out", "both_out"}

BodyStep(name, kind, text, out, cond, waitFor, waitTimeout) ==
    CASE kind = "shell_out" ->
            WorkflowStep(name, "shell", text, <<>>, out, cond, waitFor, waitTimeout)
      [] kind = "shell" ->
            WorkflowStep(name, "shell", text, <<>>, "", cond, waitFor, waitTimeout)
      [] kind = "llm_out" ->
            WorkflowStep(name, "llm", <<>>, text, out, cond, waitFor, waitTimeout)
      [] kind = "llm" ->
            WorkflowStep(name, "llm", <<>>, text, "", cond, waitFor, waitTimeout)
      [] kind = "local_out" ->
            WorkflowStep(name, "local_llm", <<>>, text, out, cond, waitFor, waitTimeout)
      [] kind = "both_out" ->
            WorkflowStep(name, "shell", text, text, out, cond, waitFor, waitTimeout)

ProducerWorkflows ==
    {[Name |-> "p", Steps |-> <<BodyStep("s1", b, <<"e">>, "x", <<>>, "", 0)>>] :
        b \in BodyKinds}
    \cup
    {[Name |-> "p",
      Steps |-> <<BodyStep("s1", b, <<"e">>, "x", <<>>, "", 0),
                  BodyStep("s2", "shell_out", Embed("x"), "y", <<>>, "", 0)>>] :
        b \in BodyKinds}

\* the variable a consumer step's `if` and command read
ReadKey(waitFor) == IF waitFor = "" THEN "x" ELSE waitFor

Gates ==
    {[WaitFor |-> "", WaitTimeout |-> 0]}
    \cup [WaitFor : {"p.s1", "p.s2"}, WaitTimeout : {0, WaitSecs}]

CondsOn(k) == {<<>>, CondEq(k, <<"a">>), CondEq(k, <<"b">>)}

ConsumerFirst ==
    UNION {{BodyStep("s1", "shell_out", Embed(ReadKey(g.WaitFor)), "x", cnd,
                     g.WaitFor, g.WaitTimeout) :
              cnd \in CondsOn(ReadKey(g.WaitFor))} : g \in Gates}

\* a second consumer step: a plain step reading x, or a second waiter on the
\* key the first step waits for
ConsumerSecond(first) ==
    {BodyStep("s2", "shell_out", Embed("x"), "y", CondEq("x", <<"a">>), "", 0)}
    \cup
    (IF first.WaitFor = "" THEN {}
     ELSE {BodyStep("s2", "shell_out", Embed(first.WaitFor), "y", <<>>,
                    first.WaitFor, first.WaitTimeout)})

ConsumerWorkflows ==
    {[Name |-> "c", Steps |-> <<f>>] : f \in ConsumerFirst}
    \cup
    UNION {{[Name |-> "c", Steps |-> <<f, s>>] : s \in ConsumerSecond(f)} :
              f \in ConsumerFirst}

\* `echo ` and the words the conditional fixture echoes and compares
Echo == <<"e", "c", "h", "o", " ">>
Production == <<"p", "r", "o", "d", "u", "c", "t", "i", "o", "n">>
Debug == <<"d", "e", "b", "u", "g">>
Matched == <<"m", "a", "t", "c", "h", "e", "d">>
No == <<"n", "o">>

\* the conditional workflow: a step storing the output of `echo production`
\* in mode, one step guarded by mode == 'production', one by mode == 'debug'
Conditional ==
    [Name |-> "conditional",
     Steps |-> <<WorkflowStep("set", "shell", Echo \o Production, <<>>, "mode",
                              <<>>, "", 0),
                 WorkflowStep("match", "shell", Echo \o Matched, <<>>,
                              "conditional_result",
                              CondEq("mode", Production), "", 0),
                 WorkflowStep("miss", "shell", Echo \o No, <<>>,
                              "negative_result",
                              CondEq("mode", Debug), "", 0)>>]

\* the conditional workflow next to a plain one-step workflow
ScenarioPrograms ==
    {<<Conditional,
       [Name |-> "c",
        Steps |-> <<BodyStep("s1", "shell_out", Embed("x"), "x", <<>>, "", 0)>>]>>}

Programs ==
    {<<p, c>> : p \in ProducerWorkflows, c \in ConsumerWorkflows}
        \cup ScenarioPrograms

\* what the environment can hand back
ShellOutputs == {<<"a">>, <<"b">>}
LLMResults   == {<<" ", "a", "\n">>}
ShellErr     == <<"exit status 1">>
LLMErr       == <<"inference failed">>

\* the combined output of `sh -c command`: echo prints its words and a
\* newline; any other command prints what the environment decides
Run(command) ==
    IF HasPrefix(command, Echo)
    THEN {Drop(command, Len(Echo)) \o <<"\n">>}
    ELSE ShellOutputs

signalMsg(val, err) == [Val |-> val, Err |-> err]

-----------------------------------------------------------------------------
(* State.                                                                  *)

Tasks == 1..Len(wfs)
TaskIds == {1, 2}
CurStep(w) == wfs[w].Steps[cur[w]]
Finished(w) == phase[w] \in {"done", "failed"}

\* concurrent SendRequest calls on one worker client
NumCalls == 2
Callers == 1..NumCalls

\* Request{ID, Prompt}; TooLong: the frame's line is longer than the
\* server's scanner accepts (bufio.MaxScanTokenSize)
Request(id, prompt, tooLong) == [ID |-> id, Prompt |-> prompt, TooLong |-> tooLong]

\* Response{ID, Val, Err} as a frame that decodes
Response(id, val, err) == [json |-> TRUE, ID |-> id, Val |-> val, Err |-> err]

\* bytes on the worker's standard output that do not decode as a Response
Garbage == [json |-> FALSE, ID |-> "", Val |-> "", Err |-> ""]

NoRequest == Request("", "", FALSE)
NoResponse == Response("", "", "")

\* the prompt of caller c
PromptOf(c) == "prompt" \o ToString(c)

\* the state after NewClientWithFd: worker started, readLoop running
WorkerInit ==
    /\ idCounter = 0
    /\ pending = EmptyMap
    /\ call = [c \in Callers |->
                 [pc |-> "idle", id |-> "", long |-> FALSE, ch |-> <<>>,
                  ret |-> NoResponse]]
    /\ stdin = <<>>
    /\ stdinClosed = FALSE
    /\ stdout = <<>>
    /\ serverPc = "scan"
    /\ serving = NoRequest
    /\ readerPc = "run"
    /\ reqLog = <<>>
    /\ respLog = <<>>
    /\ closePc = "idle"

\* the state after construction, for a program out of a set of programs
\* frames the worker's standard output pipe holds before a write blocks
PipeFrames == 1

\* before any Generate call goes to the worker
NoRemote == [pc |-> "idle", modelSpec |-> <<>>, parent |-> <<>>, worker |-> <<>>]

\* the size given to NewPool
PoolSize == 2

\* goroutines that call Get on the pool
NumGetters == 2

\* Get calls of one run
MaxGets == 4

Getters == 1..NumGetters

\* the clients of the pool, by their index in p.clients
Clients == 0..(PoolSize - 1)

\* NewPool(size): current is 0, nobody is inside Get, nothing handed out
NewPool ==
    [current |-> 0,
     pc      |-> [g \in Getters |-> "idle"],
     client  |-> [g \in Getters |-> 0],
     next    |-> [g \in Getters |-> 0],
     calls   |-> 0,
     handed  |-> <<>>]

\* BuildFromCode calls that run at the same time
NumBuilds == 2

Builders == 1..NumBuilds

\* no BuildFromCode call has started, the file system holds none of its files
NoBuilds ==
    [pc      |-> [c \in Builders |-> "idle"],
     opts    |-> [c \in Builders |-> <<>>],
     code    |-> [c \in Builders |-> ""],
     files   |-> [f \in {} |-> <<>>],
     removed |-> {}]

NoCode == [emitted |-> FALSE]

\* before Compile is called
NotCompiling == [pc |-> "idle", wfs |-> <<>>, err |-> "", code |-> NoCode]

\* workflow tasks with a local_llm step, each with its own LocalLlamaRuntime
NumLlamaTasks == 2

LlamaTasks == 1..NumLlamaTasks

\* Generate calls a task makes
MaxGenerates == 2

\* NewLocalLlamaRuntime, in-process: an empty cache; predictMu unlocked
LlamaInit ==
    /\ genPc = [t \in LlamaTasks |-> "idle"]
    /\ genPath = [t \in LlamaTasks |-> <<>>]
    /\ genCalls = [t \in LlamaTasks |-> 0]
    /\ genModel = [t \in LlamaTasks |-> 0]
    /\ models = [t \in LlamaTasks |-> EmptyMap]
    /\ loaded = <<>>
    /\ predictMu = 0

InitOf(programs) ==
    /\ WorkerInit
    /\ LlamaInit
    /\ procs = <<>>
    /\ sanitized = <<>>
    /\ compile = NotCompiling
    /\ remote = NoRemote
    /\ pool = NewPool
    /\ build = NoBuilds
    /\ wfs \in programs
    /\ cur = [w \in 1..Len(wfs) |-> 1]
    /\ phase = [w \in 1..Len(wfs) |-> "start"]
    /\ ctx = [w \in 1..Len(wfs) |-> EmptyMap]
    /\ timer = [w \in 1..Len(wfs) |-> 0]
    /\ rendered = [w \in 1..Len(wfs) |-> <<>>]
    /\ signals = EmptyMap
    /\ signalValues = EmptyMap
    /\ contexts = EmptyMap
    /\ mainPc = "wait"
    /\ closedLlamas = {}
    /\ artifact = NoArtifact
    /\ exited = FALSE
    /\ sendLog = EmptyMap
    /\ recvLog = {}
    /\ dispatched = {}
    /\ skipped = {}
    /\ failure = [w \in 1..Len(wfs) |-> ""]

Init == InitOf(Programs)

-----------------------------------------------------------------------------
(* The signal bus of the generated program.                                *)

\* a new empty channel on every call
mkFresh(sigs, k) == Set(sigs, k, <<>>)

\* mk: the channel of key k, created empty on first use
mk(sigs, k) == IF k \in DOMAIN sigs THEN sigs ELSE Set(sigs, k, <<>>)

\* send, channel part: a non-blocking send (select with default) on mk(k)
SendChan(sigs, k, msg) ==
    LET made == mk(sigs, k)
    IN IF Len(made[k]) < ChanCap
       THEN [made EXCEPT ![k] = Append(@, msg)]
       ELSE made

\* a send that leaves the side table alone
SendValueForgotten(vals, k, msg) == vals

\* send, side table part: signalValues[k] = msg
SendValue(vals, k, msg) == Set(vals, k, msg)

\* a receive that does not block: an empty channel yields the zero message
ChanRecvNonBlocking(sigs, k) ==
    IF k \in DOMAIN sigs /\ sigs[k] # <<>>
    THEN [ok |-> TRUE, msg |-> Head(sigs[k])]
    ELSE [ok |-> TRUE, msg |-> [Val |-> <<>>, Err |-> <<>>]]

\* <-mk(k): the message at the head of the channel; an empty channel blocks
ChanRecv(sigs, k) ==
    IF k \in DOMAIN sigs /\ sigs[k] # <<>>
    THEN [ok |-> TRUE, msg |-> Head(sigs[k])]
    ELSE [ok |-> FALSE, msg |-> signalMsg(<<>>, <<>>)]

Logged(log, k, msg) == Set(log, k, Append(Get(log, k), msg))

\* a send that waits for room in the channel
CanSendBlocking(sigs, k) ==
    IF k \in DOMAIN sigs THEN Len(sigs[k]) < ChanCap ELSE TRUE

\* `select { case mk(k) <- msg: default: }`: the send goes on whatever the
\* channel holds
CanSend(sigs, k) == TRUE

\* send(k, msg) as one step on the bus and its history
send(k, msg) ==
    /\ CanSend(signals, k)
    /\ signalValues' = SendValue(signalValues, k, msg)
    /\ signals' = SendChan(signals, k, msg)
    /\ sendLog' = Logged(sendLog, k, msg)

-----------------------------------------------------------------------------
(* One workflow task.                                                      *)

\* one variable map that every task writes
SharedContext(maps, w, m) == [v \in DOMAIN maps |-> m]

\* `ctx := NewContext()` in the prologue of each task: a write of task w
\* lands in the map of task w
OwnContext(maps, w, m) == [maps EXCEPT ![w] = m]

\* a task whose every step starts from a fresh variable map
AdvanceFreshContext(w, m) ==
    /\ ctx' = [ctx EXCEPT ![w] = EmptyMap]
    /\ IF cur[w] < Len(wfs[w].Steps)
       THEN /\ cur' = [cur EXCEPT ![w] = @ + 1]
            /\ phase' = [phase EXCEPT ![w] = "start"]
            /\ contexts' = contexts
       ELSE /\ cur' = cur
            /\ phase' = [phase EXCEPT ![w] = "done"]
            /\ contexts' = Set(contexts, WfKey(wfs, w), m)

\* the task has run its last step: contexts[wfKey] = ctx.Vars, wg.Done()
\* otherwise it moves on to the next step
Advance(w, m) ==
    /\ ctx' = OwnContext(ctx, w, m)
    /\ IF cur[w] < Len(wfs[w].Steps)
       THEN /\ cur' = [cur EXCEPT ![w] = @ + 1]
            /\ phase' = [phase EXCEPT ![w] = "start"]
            /\ contexts' = contexts
       ELSE /\ cur' = cur
            /\ phase' = [phase EXCEPT ![w] = "done"]
            /\ contexts' = Set(contexts, WfKey(wfs, w), m)

\* a skip that still runs the send emitted after the body
SkipStepSends(w, m) ==
    /\ skipped' = skipped \cup {<<w, cur[w]>>}
    /\ Advance(w, m)
    /\ signalValues' = SendValue(signalValues, StepKey(wfs, w, cur[w]),
                                 signalMsg(<<>>, <<>>))
    /\ sendLog' = Logged(sendLog, StepKey(wfs, w, cur[w]), signalMsg(<<>>, <<>>))
    /\ UNCHANGED <<rendered, dispatched>>

\* the `if` wrapper evaluated false: nothing of the body runs
SkipStep(w, m) ==
    /\ skipped' = skipped \cup {<<w, cur[w]>>}
    /\ Advance(w, m)
    /\ UNCHANGED <<rendered, dispatched, signalValues, sendLog>>

\* the step's `if` wrapper and the start of its execution body, with the
\* variable map m: a false condition skips the whole body
EnterBody(w, m) ==
    LET step == CurStep(w)
    IN IF step.If # <<>> /\ ~EvalCondition(m, step.If)
       THEN SkipStep(w, m)
       ELSE /\ dispatched' = dispatched \cup {<<w, cur[w]>>}
            /\ ctx' = OwnContext(ctx, w, m)
            /\ UNCHANGED <<signalValues, sendLog>>
            /\ IF HasShellBody(step)
               THEN /\ rendered' = [rendered EXCEPT ![w] = RenderTemplate(step.Command, m)]
                    /\ phase' = [phase EXCEPT ![w] = "shell"]
               ELSE /\ rendered' = [rendered EXCEPT ![w] = RenderTemplate(step.Prompt, m)]
                    /\ phase' = [phase EXCEPT ![w] = "llm"]
            /\ UNCHANGED <<cur, contexts, skipped>>

\* the task reaches a step: it enters the wait gate if the step has wait_for,
\* else goes on to the `if` and the body
BeginStep(w) ==
    /\ UNCHANGED nonProgramVars
    /\ ~exited
    /\ phase[w] = "start"
    /\ LET step == CurStep(w)
       IN IF step.WaitFor # ""
          THEN /\ signals' = mk(signals, waitForKey(wfs, step.WaitFor))
               /\ timer' = [timer EXCEPT ![w] = step.WaitTimeout]
               /\ phase' = [phase EXCEPT ![w] = "wait"]
               /\ UNCHANGED <<cur, ctx, rendered, contexts, dispatched, skipped,
                              signalValues, sendLog>>
          ELSE /\ EnterBody(w, ctx[w])
               /\ UNCHANGED <<signals, timer>>
    /\ UNCHANGED <<wfs, mainPc, closedLlamas, artifact, exited, recvLog, failure>>

\* log.Fatalf: the whole process exits with status 1
Fatalf(w, cause) ==
    /\ exited' = TRUE
    /\ failure' = [failure EXCEPT ![w] = cause]

\* the wait gate receives: msg := <-mk(key)
WaitReceive(w) ==
    /\ UNCHANGED nonProgramVars
    /\ ~exited
    /\ phase[w] = "wait"
    /\ LET step == CurStep(w)
           key  == waitForKey(wfs, step.WaitFor)
           got  == ChanRecv(signals, key)
       IN /\ got.ok
          /\ LET msg == got.msg
             IN /\ signals' = [signals EXCEPT ![key] = IF @ = <<>> THEN @ ELSE Tail(@)]
                /\ recvLog' = recvLog \cup
                       {[w |-> w, i |-> cur[w], key |-> key, msg |-> msg]}
                /\ IF msg.Err # <<>>
                   THEN /\ Fatalf(w, "wait_error")
                        /\ UNCHANGED <<cur, phase, ctx, rendered, contexts,
                                       dispatched, skipped, signalValues, sendLog>>
                   ELSE /\ EnterBody(w, Set(ctx[w], step.WaitFor, msg.Val))
                        /\ UNCHANGED <<exited, failure>>
    /\ UNCHANGED <<wfs, timer, mainPc, closedLlamas, artifact>>

\* a gate emitted without any time.After case
TimerNeverArmed(step) == FALSE

\* a time.After case emitted for every gate, also with wait_timeout = 0
TimerArmedAlways(step) == step.WaitTimeout >= 0

\* the gate is a select with a time.After case only when wait_timeout > 0
TimerArmed(step) == step.WaitTimeout > 0

\* the wait gate's time.After fires
WaitTimeout(w) ==
    /\ UNCHANGED nonProgramVars
    /\ ~exited
    /\ phase[w] = "wait"
    /\ TimerArmed(CurStep(w))
    /\ timer[w] = 0
    /\ Fatalf(w, "wait_timeout")
    /\ UNCHANGED <<wfs, cur, phase, ctx, timer, rendered, signals, signalValues,
                   contexts, mainPc, closedLlamas, artifact, sendLog, recvLog,
                   dispatched, skipped>>

\* a task is at a gate whose timer is still running
TimerRuns(w) == phase[w] = "wait" /\ TimerArmed(CurStep(w)) /\ timer[w] > 0

\* one second passes
Tick ==
    /\ UNCHANGED nonProgramVars
    /\ ~exited
    /\ \E w \in Tasks : TimerRuns(w)
    /\ timer' = [w \in Tasks |-> IF TimerRuns(w) THEN timer[w] - 1 ELSE timer[w]]
    /\ UNCHANGED <<wfs, cur, phase, ctx, rendered, signals, signalValues,
                   contexts, mainPc, closedLlamas, artifact, exited, sendLog,
                   recvLog, dispatched, skipped, failure>>

\* a failing body that still saves the task's variable map on its way out
FailStepSavesContext(w, cause, err) ==
    /\ send(StepKey(wfs, w, cur[w]), signalMsg(<<>>, err))
    /\ phase' = [phase EXCEPT ![w] = "failed"]
    /\ failure' = [failure EXCEPT ![w] = cause]
    /\ contexts' = Set(contexts, WfKey(wfs, w), ctx[w])
    /\ UNCHANGED <<cur, ctx, rendered>>

\* the step's body ends in an error: send(stepKey, {Err}) and return
FailStep(w, cause, err) ==
    /\ send(StepKey(wfs, w, cur[w]), signalMsg(<<>>, err))
    /\ phase' = [phase EXCEPT ![w] = "failed"]
    /\ failure' = [failure EXCEPT ![w] = cause]
    /\ UNCHANGED <<cur, ctx, rendered, contexts>>

\* shell.Run(cmd) returns
ShellReturn(w) ==
    /\ UNCHANGED nonProgramVars
    /\ ~exited
    /\ phase[w] = "shell"
    /\ LET step == CurStep(w)
       IN \/ FailStep(w, "shell", ShellErr)
          \/ \E out \in Run(rendered[w]) :
               LET m == IF step.Output # "" THEN Set(ctx[w], step.Output, out)
                        ELSE ctx[w]
               IN /\ IF step.Output # ""
                     THEN send(StepKey(wfs, w, cur[w]), signalMsg(out, <<>>))
                     ELSE UNCHANGED <<signals, signalValues, sendLog>>
                  /\ IF HasLLMBody(step)
                     THEN /\ ctx' = OwnContext(ctx, w, m)
                          /\ rendered' = [rendered EXCEPT ![w] = RenderTemplate(step.Prompt, m)]
                          /\ phase' = [phase EXCEPT ![w] = "llm"]
                          /\ UNCHANGED <<cur, contexts>>
                     ELSE /\ Advance(w, m)
                          /\ UNCHANGED rendered
                  /\ UNCHANGED failure
    /\ UNCHANGED <<wfs, timer, mainPc, closedLlamas, artifact, exited, recvLog,
                   dispatched, skipped>>

\* llm.Generate / localLlama.Generate returns
LLMReturn(w) ==
    /\ UNCHANGED nonProgramVars
    /\ ~exited
    /\ phase[w] = "llm"
    /\ LET step == CurStep(w)
       IN \/ FailStep(w, "llm", LLMErr)
          \/ \E result \in LLMResults :
               LET out == SanitizeForShell(result)
                   m   == IF step.Output # "" THEN Set(ctx[w], step.Output, out)
                          ELSE ctx[w]
               IN /\ IF step.Output # ""
                     THEN send(StepKey(wfs, w, cur[w]), signalMsg(out, <<>>))
                     ELSE UNCHANGED <<signals, signalValues, sendLog>>
                  /\ Advance(w, m)
                  /\ UNCHANGED <<rendered, failure>>
    /\ UNCHANGED <<wfs, timer, mainPc, closedLlamas, artifact, exited, recvLog,
                   dispatched, skipped>>

-----------------------------------------------------------------------------
(* main after launching the tasks.                                         *)

\* the tasks that registered a local inference runtime in localLlamas
localLlamas == {w \in Tasks : hasLocal(wfs[w])}

\* wg.Wait() returns
Barrier ==
    /\ UNCHANGED nonProgramVars
    /\ ~exited
    /\ mainPc = "wait"
    /\ \A w \in Tasks : Finished(w)
    /\ mainPc' = "close"
    /\ UNCHANGED <<wfs, cur, phase, ctx, timer, rendered, signals, signalValues,
                   contexts, closedLlamas, artifact, exited, sendLog, recvLog,
                   dispatched, skipped, failure>>

\* for _, ll := range localLlamas { ll.Close() }
CloseLlamas ==
    /\ UNCHANGED nonProgramVars
    /\ ~exited
    /\ mainPc = "close"
    /\ closedLlamas' = localLlamas
    /\ mainPc' = "dump"
    /\ UNCHANGED <<wfs, cur, phase, ctx, timer, rendered, signals, signalValues,
                   contexts, artifact, exited, sendLog, recvLog, dispatched,
                   skipped, failure>>

\* a dump that reads what is left in the channel queues
ChannelsFromQueues(vals) ==
    [k \in DOMAIN signals |->
        IF signals[k] = <<>>
        THEN [val |-> <<>>, err |-> Null]
        ELSE [val |-> Head(signals[k]).Val,
              err |-> IF Head(signals[k]).Err = <<>> THEN Null
                      ELSE Head(signals[k]).Err]]

\* the channels object of the dump: signalValues with an empty Err as null
Channels(vals) ==
    [k \in DOMAIN vals |->
        [val |-> vals[k].Val,
         err |-> IF vals[k].Err = <<>> THEN Null ELSE vals[k].Err]]

\* the dump is written and the completion marker printed
Dump ==
    /\ UNCHANGED nonProgramVars
    /\ ~exited
    /\ mainPc = "dump"
    /\ artifact' = [written |-> TRUE, contexts |-> contexts,
                    channels |-> Channels(signalValues)]
    /\ mainPc' = "done"
    /\ UNCHANGED <<wfs, cur, phase, ctx, timer, rendered, signals, signalValues,
                   contexts, closedLlamas, exited, sendLog, recvLog, dispatched,
                   skipped, failure>>

Next ==
    \/ \E w \in Tasks : BeginStep(w)
    \/ \E w \in Tasks : WaitReceive(w)
    \/ \E w \in Tasks : WaitTimeout(w)
    \/ Tick
    \/ \E w \in Tasks : ShellReturn(w)
    \/ \E w \in Tasks : LLMReturn(w)
    \/ Barrier
    \/ CloseLlamas
    \/ Dump

Spec == Init /\ [][Next]_vars

\* time passes and an expired time.After fires
LiveSpec ==
    Spec /\ WF_vars(Tick) /\ \A w \in TaskIds : WF_vars(WaitTimeout(w))

\* a running task that stands before a step can take it: BeginStep(w) is
\* enabled exactly in these states
CanBegin(w) == ~exited /\ phase[w] = "start"

\* weak fairness of BeginStep(w), with its enabling condition written out
BeginStepFair(w) == []<>(~CanBegin(w)) \/ []<><<BeginStep(w)>>_vars

\* a waiting task whose channel holds a message can receive it: WaitReceive(w)
\* is enabled exactly in these states
CanReceive(w) ==
    /\ ~exited
    /\ phase[w] = "wait"
    /\ ChanRecv(signals, waitForKey(wfs, CurStep(w).WaitFor)).ok

\* weak fairness of WaitReceive(w), with its enabling condition written out
WaitReceiveFair(w) == []<>(~CanReceive(w)) \/ []<><<WaitReceive(w)>>_vars

\* every goroutine that can run does run, time passes, and every shell and
\* inference call returns: the program does not stop while a step is possible
RunSpec ==
    /\ Spec
    /\ WF_vars(Tick)
    /\ WF_vars(Barrier)
    /\ WF_vars(CloseLlamas)
    /\ WF_vars(Dump)
    /\ \A w \in TaskIds :
          /\ BeginStepFair(w)
          /\ WaitReceiveFair(w)
          /\ WF_vars(WaitTimeout(w))
          /\ WF_vars(ShellReturn(w))
          /\ WF_vars(LLMReturn(w))

-----------------------------------------------------------------------------
(* The worker client (SendRequest, readLoop, Close) and the worker server. *)

\* id := fmt.Sprintf("%d", atomic.AddUint64(&c.idCounter, 1)); the caller
\* also decides how long its prompt is
NewId(c) ==
    /\ UNCHANGED closePc
    /\ call[c].pc = "idle"
    /\ idCounter' = idCounter + 1
    /\ \E tooLong \in BOOLEAN :
          call' = [call EXCEPT ![c].pc = "id", ![c].id = ToString(idCounter + 1),
                               ![c].long = tooLong]
    /\ UNCHANGED <<pending, stdin, stdinClosed, stdout, serverPc, serving,
                   readerPc, reqLog, respLog>>
    /\ UNCHANGED nonWorkerVars

\* c.pending[id] = ch
Register(c) ==
    /\ UNCHANGED closePc
    /\ call[c].pc = "id"
    /\ pending' = [x \in DOMAIN pending \cup {call[c].id} |->
                      IF x = call[c].id THEN c ELSE pending[x]]
    /\ call' = [call EXCEPT ![c].pc = "reg"]
    /\ UNCHANGED <<idCounter, stdin, stdinClosed, stdout, serverPc, serving,
                   readerPc, reqLog, respLog>>
    /\ UNCHANGED nonWorkerVars

\* c.enc.Encode(req): one write of the whole frame, or an error once the
\* pipe is closed
Encode(c) ==
    /\ UNCHANGED closePc
    /\ call[c].pc = "reg"
    /\ IF stdinClosed
       THEN /\ call' = [call EXCEPT ![c].pc = "err"]
            /\ UNCHANGED <<stdin, reqLog>>
       ELSE LET req == Request(call[c].id, PromptOf(c), call[c].long)
            IN /\ stdin' = Append(stdin, req)
               /\ reqLog' = Append(reqLog, req)
               /\ call' = [call EXCEPT ![c].pc = "wait"]
    /\ UNCHANGED <<idCounter, pending, stdinClosed, stdout, serverPc, serving,
                   readerPc, respLog>>
    /\ UNCHANGED nonWorkerVars

\* resp := <-ch; return
Return(c) ==
    /\ UNCHANGED closePc
    /\ call[c].pc = "wait"
    /\ call[c].ch # <<>>
    /\ call' = [call EXCEPT ![c].pc = "done", ![c].ret = Head(call[c].ch),
                            ![c].ch = Tail(call[c].ch)]
    /\ UNCHANGED <<idCounter, pending, stdin, stdinClosed, stdout, serverPc,
                   serving, readerPc, reqLog, respLog>>
    /\ UNCHANGED nonWorkerVars

\* Client.Close: c.stdin.Close(), then on to c.cmd.Wait()
Close ==
    /\ ~stdinClosed
    /\ stdinClosed' = TRUE
    /\ closePc' = "waiting"
    /\ UNCHANGED <<idCounter, pending, call, stdin, stdout, serverPc, serving,
                   readerPc, reqLog, respLog>>
    /\ UNCHANGED nonWorkerVars

\* Client.Close: c.cmd.Wait() returns once the worker process has exited
CloseReturns ==
    /\ closePc = "waiting"
    /\ serverPc = "exited"
    /\ closePc' = "returned"
    /\ UNCHANGED <<idCounter, pending, call, stdin, stdinClosed, stdout, serverPc,
                   serving, readerPc, reqLog, respLog>>
    /\ UNCHANGED nonWorkerVars

\* Server.Run, scanner.Scan(): the next line, false at end of input and
\* false (bufio.ErrTooLong) at a line longer than the scanner's buffer
ServerScan ==
    /\ UNCHANGED closePc
    /\ serverPc = "scan"
    /\ IF stdin # <<>>
       THEN IF Head(stdin).TooLong
            THEN /\ serverPc' = "exited"
                 /\ UNCHANGED <<stdin, serving>>
            ELSE /\ serverPc' = "serve"
                 /\ serving' = Head(stdin)
                 /\ stdin' = Tail(stdin)
       ELSE /\ stdinClosed
            /\ serverPc' = "exited"
            /\ UNCHANGED <<stdin, serving>>
    /\ UNCHANGED <<idCounter, pending, call, stdinClosed, stdout, readerPc,
                   reqLog, respLog>>
    /\ UNCHANGED nonWorkerVars

\* handler.Generate on a prompt
Generate(prompt) == "re:" \o prompt

\* Server.Run: serve the request, enc.Encode(resp), w.Flush()
ServerRespond ==
    /\ UNCHANGED closePc
    /\ serverPc = "serve"
    /\ Len(stdout) < PipeFrames
    /\ \E failed \in BOOLEAN :
          LET resp == IF failed
                      THEN Response(serving.ID, "", "generate failed")
                      ELSE Response(serving.ID, Generate(serving.Prompt), "")
          IN /\ stdout' = Append(stdout, resp)
             /\ respLog' = Append(respLog, resp)
    /\ serverPc' = "scan"
    /\ serving' = NoRequest
    /\ UNCHANGED <<idCounter, pending, call, stdin, stdinClosed, readerPc, reqLog>>
    /\ UNCHANGED nonWorkerVars

\* something in the worker process writes to its standard output outside the
\* protocol (at most once)
StdoutNoise ==
    /\ UNCHANGED closePc
    /\ serverPc # "exited"
    /\ Len(stdout) < PipeFrames
    /\ \A i \in 1..Len(respLog) : respLog[i] # Garbage
    /\ stdout' = Append(stdout, Garbage)
    /\ respLog' = Append(respLog, Garbage)
    /\ UNCHANGED <<idCounter, pending, call, stdin, stdinClosed, serverPc,
                   serving, readerPc, reqLog>>
    /\ UNCHANGED nonWorkerVars

\* a lookup that hands every response to the call registered first
LookupAny(pend, id) ==
    IF DOMAIN pend = {} THEN [ok |-> FALSE, id |-> id]
    ELSE [ok |-> TRUE, id |-> CHOOSE x \in DOMAIN pend : TRUE]

\* ch, ok := c.pending[resp.ID]
Lookup(pend, id) == [ok |-> id \in DOMAIN pend, id |-> id]

\* a reader that drops what it cannot decode and reads on
AfterDecodeErrorReadOn == "run"

\* readLoop on a decode error other than EOF: log and return
AfterDecodeError == "decode_error"

\* Client.readLoop: decode one frame and route it to its waiter
ReadLoop ==
    /\ UNCHANGED closePc
    /\ readerPc = "run"
    /\ IF stdout # <<>>
       THEN LET resp == Head(stdout)
                found == Lookup(pending, resp.ID)
            IN /\ stdout' = Tail(stdout)
               /\ IF ~resp.json
                  THEN /\ readerPc' = AfterDecodeError
                       /\ UNCHANGED <<pending, call>>
                  ELSE /\ readerPc' = readerPc
                       /\ IF found.ok
                          THEN /\ pending' = [x \in DOMAIN pending \ {found.id} |->
                                                 pending[x]]
                               /\ call' = [call EXCEPT ![pending[found.id]].ch =
                                                          Append(@, resp)]
                          ELSE UNCHANGED <<pending, call>>
       ELSE /\ serverPc = "exited"
            /\ readerPc' = "eof"
            /\ UNCHANGED <<stdout, pending, call>>
    /\ UNCHANGED <<idCounter, stdin, stdinClosed, serverPc, serving, reqLog,
                   respLog>>
    /\ UNCHANGED nonWorkerVars

WorkerNext ==
    \/ \E c \in Callers : NewId(c)
    \/ \E c \in Callers : Register(c)
    \/ \E c \in Callers : Encode(c)
    \/ \E c \in Callers : Return(c)
    \/ Close
    \/ CloseReturns
    \/ ServerScan
    \/ ServerRespond
    \/ StdoutNoise
    \/ ReadLoop

\* the worker client and its worker next to a program that has not started
WorkerStart == InitOf(ScenarioPrograms)

WorkerSpec == WorkerStart /\ [][WorkerNext]_vars

-----------------------------------------------------------------------------
(* In-process inference: LocalLlamaRuntime. The generated program creates   *)
(* one runtime per workflow task that has a local_llm step, so each task    *)
(* has its own r.models and r.mu; predictMu is a package variable.          *)

FilePrefix == <<"f", "i", "l", "e", ":">>
Gguf == <<".", "g", "g", "u", "f">>
ModelsDir == <<".", "/", "m", "o", "d", "e", "l", "s", "/">>
Cwd == <<"/", "w">>

\* Generate's resolution of modelSpec to a path
ModelPath(modelSpec) ==
    IF HasPrefix(modelSpec, FilePrefix) THEN Drop(modelSpec, Len(FilePrefix))
    ELSE IF \/ HasPrefix(modelSpec, <<"/">>)
            \/ HasPrefix(modelSpec, <<".", "/">>)
            \/ HasPrefix(modelSpec, <<".", ".", "/">>)
         THEN IF HasSuffix(modelSpec, Gguf) THEN modelSpec ELSE modelSpec \o Gguf
    ELSE IF HasSuffix(modelSpec, Gguf) THEN ModelsDir \o modelSpec
    ELSE ModelsDir \o modelSpec \o Gguf

\* filepath.Clean on the relative paths used here: leading "./" elements go
RECURSIVE CleanRel(_)
CleanRel(path) ==
    IF HasPrefix(path, <<".", "/">>) THEN CleanRel(Drop(path, 2)) ELSE path

\* filepath.Abs
Abs(path) ==
    IF HasPrefix(path, <<"/">>) THEN path ELSE Cwd \o <<"/">> \o CleanRel(path)

\* the model specs the steps name: three spellings of one file, and another file
ModelSpecs ==
    { <<"m">> \o Gguf,
      <<".", "/">> \o <<"m", "o", "d", "e", "l", "s", "/", "m">>,
      FilePrefix \o Cwd \o <<"/", "m", "o", "d", "e", "l", "s", "/", "m">> \o Gguf,
      <<"n">> }

\* LocalLlamaRuntime.LoadModel under r.mu: the cached handle of this runtime,
\* or a fresh handle from llama.LoadModel
LoadModel(t, abs) ==
    IF abs \in DOMAIN models[t]
    THEN [hit |-> TRUE, model |-> models[t][abs]]
    ELSE [hit |-> FALSE, model |-> Len(loaded) + 1]

\* Generate up to r.LoadModel: a cached handle is returned at once, else the
\* call enters llama.LoadModel, holding r.mu of its own runtime
GenerateLoad(t) ==
    /\ genPc[t] = "idle"
    /\ genCalls[t] < MaxGenerates
    /\ genCalls' = [genCalls EXCEPT ![t] = @ + 1]
    /\ \E abs \in {Abs(ModelPath(modelSpec)) : modelSpec \in ModelSpecs} :
          LET got == LoadModel(t, abs)
          IN  IF got.hit
              THEN /\ genModel' = [genModel EXCEPT ![t] = got.model]
                   /\ genPc' = [genPc EXCEPT ![t] = "lock"]
                   /\ UNCHANGED genPath
              ELSE /\ genPath' = [genPath EXCEPT ![t] = abs]
                   /\ genPc' = [genPc EXCEPT ![t] = "load"]
                   /\ UNCHANGED genModel
    /\ UNCHANGED <<models, loaded, predictMu>>
    /\ UNCHANGED nonLlamaVars

\* llama.LoadModel returns: the handle is cached, or Generate returns the error
LoadReturns(t) ==
    /\ genPc[t] = "load"
    /\ \E ok \in BOOLEAN :
          LET got == LoadModel(t, genPath[t])
          IN  IF ok
              THEN /\ genModel' = [genModel EXCEPT ![t] = got.model]
                   /\ genPc' = [genPc EXCEPT ![t] = "lock"]
                   /\ models' = [models EXCEPT ![t] = Set(@, genPath[t], got.model)]
                   /\ loaded' = Append(loaded, genPath[t])
              ELSE /\ genPc' = [genPc EXCEPT ![t] = "idle"]
                   /\ UNCHANGED <<genModel, models, loaded>>
    /\ genPath' = [genPath EXCEPT ![t] = <<>>]
    /\ UNCHANGED <<genCalls, predictMu>>
    /\ UNCHANGED nonLlamaVars

\* a lock every call can take at once
MutexAlwaysFree(mu) == TRUE

\* sync.Mutex: Lock goes through when nobody holds it
MutexFree(mu) == mu = 0

\* predictMu.Lock()
PredictLock(t) ==
    /\ genPc[t] = "lock"
    /\ MutexFree(predictMu)
    /\ predictMu' = t
    /\ genPc' = [genPc EXCEPT ![t] = "predict"]
    /\ UNCHANGED <<genCalls, genPath, genModel, models, loaded>>
    /\ UNCHANGED nonLlamaVars

\* model.Predict returns; predictMu.Unlock()
PredictUnlock(t) ==
    /\ genPc[t] = "predict"
    /\ predictMu' = 0
    /\ genPc' = [genPc EXCEPT ![t] = "idle"]
    /\ genModel' = [genModel EXCEPT ![t] = 0]
    /\ UNCHANGED <<genCalls, genPath, models, loaded>>
    /\ UNCHANGED nonLlamaVars

LlamaNext ==
    \/ \E t \in LlamaTasks : GenerateLoad(t)
    \/ \E t \in LlamaTasks : LoadReturns(t)
    \/ \E t \in LlamaTasks : PredictLock(t)
    \/ \E t \in LlamaTasks : PredictUnlock(t)

LlamaSpec == WorkerStart /\ [][LlamaNext]_vars

-----------------------------------------------------------------------------
(* Generate in subprocess mode: the parent resolves the model spec, loads   *)
(* the model, and sends the resolved path to the worker as the request's    *)
(* model spec; the worker's own Generate resolves what it receives.         *)

\* model specs a step can name: with or without file:, in several
\* directories, with or without the extension
RemoteSpecs ==
    {pre \o dir \o name \o ext :
        pre \in {<<>>, FilePrefix},
        dir \in {<<>>, <<"/">>, <<".", "/">>, <<".", ".", "/">>, <<"d", "/">>},
        name \in {<<"m">>, <<"n">>, <<"m", "n">>},
        ext \in {<<>>, Gguf}}

\* Generate with a worker: r.worker.sendRequest(modelPath, prompt, maxTokens)
SentToWorker(modelSpec) == ModelPath(modelSpec)

\* the parent's Generate: resolve, LoadModel, send
RemoteSend(modelSpec) ==
    /\ remote.pc = "idle"
    /\ remote' = [pc |-> "sent", modelSpec |-> modelSpec,
                  parent |-> Abs(ModelPath(modelSpec)),
                  worker |-> SentToWorker(modelSpec)]
    /\ UNCHANGED nonRemoteVars

\* runWorkerLoop: ll.Generate(req.Prompt, req.ModelSpec, req.MaxTokens) in the
\* worker, which has the parent's working directory
RemoteServe ==
    /\ remote.pc = "sent"
    /\ remote' = [remote EXCEPT !.pc = "served",
                                !.worker = Abs(ModelPath(remote.worker))]
    /\ UNCHANGED nonRemoteVars

RemoteNext ==
    \/ \E modelSpec \in RemoteSpecs : RemoteSend(modelSpec)
    \/ RemoteServe

RemoteSpec == WorkerStart /\ [][RemoteNext]_vars

-----------------------------------------------------------------------------
(* The worker pool. Get is two statements on p.current without any lock:    *)
(* the read of the index for the client, and the increment, which is itself *)
(* a read followed by a write.                                              *)

\* client := p.clients[p.current]
GetRead(g) ==
    /\ pool.pc[g] = "idle"
    /\ pool.calls < MaxGets
    /\ pool' = [pool EXCEPT !.pc[g] = "read",
                            !.client[g] = pool.current,
                            !.calls = @ + 1]
    /\ UNCHANGED nonPoolVars

\* the right-hand side of p.current = (p.current + 1) % len(p.clients)
GetNext(g) ==
    /\ pool.pc[g] = "read"
    /\ pool' = [pool EXCEPT !.pc[g] = "next",
                            !.next[g] = (pool.current + 1) % PoolSize]
    /\ UNCHANGED nonPoolVars

\* the store into p.current, and `return client`
GetReturn(g) ==
    /\ pool.pc[g] = "next"
    /\ pool' = [pool EXCEPT !.pc[g] = "idle",
                            !.current = pool.next[g],
                            !.handed = Append(@, pool.client[g])]
    /\ UNCHANGED nonPoolVars

PoolNext ==
    \/ \E g \in Getters : GetRead(g)
    \/ \E g \in Getters : GetNext(g)
    \/ \E g \in Getters : GetReturn(g)

PoolSpec == WorkerStart /\ [][PoolNext]_vars

-----------------------------------------------------------------------------
(* BuildFromCode. A file is a directory and a base name; the file system is *)
(* a map from files to what they hold: the code, and the call that wrote it.*)

ModuleRoot == "llm-compiler"

\* filepath.Join(moduleRoot, "internal", "generated")
TempDir == <<ModuleRoot, "internal", "generated">>

File(dir, base) == [dir |-> dir, base |-> base]

\* the options a caller passes; SourceDir is left empty
BuildOptions ==
    [OutputDir : {"", "out"}, OutputName : {"", "workflow", "other"},
     KeepSource : BOOLEAN]

Codes == {"codeA", "codeB"}

\* the defaults BuildFromCode fills in
OutputDirOf(opts) == IF opts.OutputDir = "" THEN "." ELSE opts.OutputDir

OutputNameOf(opts) == IF opts.OutputName = "" THEN "workflow" ELSE opts.OutputName

\* sourceFile := filepath.Join(tempDir, opts.OutputName+".go")
SourceFile(opts) == File(TempDir, <<OutputNameOf(opts), ".go">>)

\* binaryPath := filepath.Join(absOutputDir, opts.OutputName)
BinaryPath(opts) == File(<<OutputDirOf(opts)>>, <<OutputNameOf(opts)>>)

\* destPath := filepath.Join(destDir, opts.OutputName+".go"), destDir being
\* the output directory
DestPath(opts) == File(<<OutputDirOf(opts)>>, <<OutputNameOf(opts), ".go">>)

\* os.Remove(name) by call c: the file is gone, if it was there
Remove(b, c, name) ==
    IF name \in DOMAIN b.files
    THEN [b EXCEPT !.files = [f \in DOMAIN b.files \ {name} |-> b.files[f]],
                   !.removed = @ \cup {[by |-> c, file |-> name,
                                        writer |-> b.files[name].writer]}]
    ELSE b

\* the call starts: defaults, MkdirAll, os.WriteFile(sourceFile, code)
BuildWrite(c, code, opts) ==
    /\ build.pc[c] = "idle"
    /\ build' = [build EXCEPT
                    !.pc[c] = "written",
                    !.opts[c] = opts,
                    !.code[c] = code,
                    !.files = Set(@, SourceFile(opts),
                                  [code |-> code, writer |-> c])]
    /\ UNCHANGED nonBuildVars

\* `go build -o binaryPath sourceFile`: it compiles what the source file
\* holds when it runs; on an error the call removes the source file and returns
BuildCompile(c, compiles) ==
    /\ build.pc[c] = "written"
    /\ LET opts == build.opts[c]
           src  == SourceFile(opts)
       IN IF compiles /\ src \in DOMAIN build.files
          THEN build' = [build EXCEPT
                           !.pc[c] = "built",
                           !.files = Set(@, BinaryPath(opts),
                                         [code |-> build.files[src].code,
                                          writer |-> c])]
          ELSE build' = [Remove(build, c, src) EXCEPT !.pc[c] = "failed"]
    /\ UNCHANGED nonBuildVars

\* after the build: the copy of the source when KeepSource is set, then
\* os.Remove(sourceFile)
BuildCleanup(c) ==
    /\ build.pc[c] = "built"
    /\ LET opts  == build.opts[c]
           src   == SourceFile(opts)
           saved == IF opts.KeepSource /\ src \in DOMAIN build.files
                    THEN [build EXCEPT
                            !.files = Set(@, DestPath(opts),
                                          [code |-> build.files[src].code,
                                           writer |-> c])]
                    ELSE build
       IN build' = [Remove(saved, c, src) EXCEPT !.pc[c] = "done"]
    /\ UNCHANGED nonBuildVars

BuildNext ==
    \/ \E c \in Builders, code \in Codes, opts \in BuildOptions :
          BuildWrite(c, code, opts)
    \/ \E c \in Builders, compiles \in BOOLEAN : BuildCompile(c, compiles)
    \/ \E c \in Builders : BuildCleanup(c)

BuildSpec == WorkerStart /\ [][BuildNext]_vars

-----------------------------------------------------------------------------
(* Worker processes: who spawns whom. An environment is a sequence of       *)
(* NAME=value entries, kept as records.                                     *)

\* processes one run may start
MaxProcs == 4

Entry(name, value) == [name |-> name, value |-> value]

\* os.Getenv: the value of the first entry with that name, "" when none
RECURSIVE Getenv(_, _)
Getenv(env, name) ==
    IF env = <<>> THEN ""
    ELSE IF Head(env).name = name THEN Head(env).value
    ELSE Getenv(Tail(env), name)

\* config.getEnvBool: strconv.ParseBool, and "1"
getEnvBool(env, key, defaultValue) ==
    LET value == Getenv(env, key)
    IN  IF value = "" THEN defaultValue
        ELSE IF value \in {"1", "t", "T", "TRUE", "true", "True"} THEN TRUE
        ELSE IF value \in {"0", "f", "F", "FALSE", "false", "False"} THEN FALSE
        ELSE defaultValue

\* worker.ShouldUseSubprocess: config.Get().UseSubprocess, loaded from the
\* process's own environment
ShouldUseSubprocess(env) == getEnvBool(env, "LLMC_SUBPROCESS", FALSE)

\* worker.IsWorkerProcess
IsWorkerProcess(env) == Getenv(env, "LLMC_WORKER") = "1"

\* a filter that drops only the entry LLMC_SUBPROCESS=1
StripsOnlyOne(e) == e = Entry("LLMC_SUBPROCESS", "1")

\* NewClientWithFd: strings.HasPrefix(e, "LLMC_SUBPROCESS=")
Stripped(e) == e.name = "LLMC_SUBPROCESS"

\* NewClientWithFd: the child's environment
ChildEnv(parentEnv) ==
    SelectSeq(parentEnv, LAMBDA e : ~Stripped(e)) \o <<Entry("LLMC_WORKER", "1")>>

EnvEntries ==
    { Entry("LLMC_SUBPROCESS", "1"), Entry("LLMC_SUBPROCESS", "true"),
      Entry("LLMC_SUBPROCESS", "0"), Entry("LLMC_SUBPROCESS", "yes"),
      Entry("LLMC_WORKER", "1"), Entry("PATH", "/bin") }

\* environments the user starts the program in
Envs == {<<>>} \cup {<<a>> : a \in EnvEntries}
               \cup {<<a, b>> : a \in EnvEntries, b \in EnvEntries}

Process(env, parent) == [env |-> env, parent |-> parent, runtimes |-> 0]

\* runtimes a process creates: a worker one for its handler (init), the
\* generated program one per workflow task with a local_llm step
RuntimesOf(env) == IF IsWorkerProcess(env) THEN 1 ELSE NumLlamaTasks

\* the user starts the program
Exec(env) ==
    /\ procs = <<>>
    /\ procs' = <<Process(env, 0)>>
    /\ UNCHANGED nonProcVars

\* NewLocalLlamaRuntime in process p; worker.NewClient may fail
NewLocalLlamaRuntime(p) ==
    /\ procs[p].runtimes < RuntimesOf(procs[p].env)
    /\ Len(procs) < MaxProcs
    /\ \E ok \in BOOLEAN :
          LET made == [procs EXCEPT ![p].runtimes = @ + 1]
          IN  procs' = IF ShouldUseSubprocess(procs[p].env) /\ ok
                       THEN Append(made, Process(ChildEnv(procs[p].env), p))
                       ELSE made
    /\ UNCHANGED nonProcVars

ProcNext ==
    \/ \E env \in Envs : Exec(env)
    \/ \E p \in 1..Len(procs) : NewLocalLlamaRuntime(p)

ProcSpec == WorkerStart /\ [][ProcNext]_vars

\* processes between p and the one the user started
RECURSIVE Depth(_)
Depth(p) == IF procs[p].parent = 0 THEN 0 ELSE 1 + Depth(procs[p].parent)

-----------------------------------------------------------------------------
(* SanitizeForShell applied to model results, and to its own output.        *)

\* longest model result
MaxText == 3

TextChars == {"a", " ", "\t", "\r", "\n", "NUL", "\"", "\\"}

RECURSIVE Texts(_)
Texts(n) ==
    IF n = 0 THEN {<<>>}
    ELSE Texts(n - 1) \cup {Append(cs, ch) : cs \in Texts(n - 1), ch \in TextChars}

\* the model returns result
ModelResult(result) ==
    /\ sanitized = <<>>
    /\ sanitized' = <<result>>
    /\ UNCHANGED nonSanitizeVars

\* out = runtime.SanitizeForShell(...), on the result and then on out itself
Sanitize ==
    /\ Len(sanitized) \in {1, 2}
    /\ sanitized' = Append(sanitized, SanitizeForShell(sanitized[Len(sanitized)]))
    /\ UNCHANGED nonSanitizeVars

SanitizeNext ==
    \/ \E result \in Texts(MaxText) : ModelResult(result)
    \/ Sanitize

SanitizeSpec == WorkerStart /\ [][SanitizeNext]_vars

\* backslashes that end at position i of cs
RECURSIVE BackslashesBefore(_, _)
BackslashesBefore(cs, i) ==
    IF i >= 1 /\ cs[i] = "\\" THEN 1 + BackslashesBefore(cs, i - 1) ELSE 0

\* inside a double-quoted shell argument the quote at position i is literal:
\* an odd number of backslashes stands before it
Escaped(cs, i) == BackslashesBefore(cs, i - 1) % 2 = 1

-----------------------------------------------------------------------------
(* Compile: validate every workflow, then generate one program.             *)

\* steps of a workflow handed to Compile
MaxSteps == 1

\* the fields of a step that Validate and the lowering of a model step read
CompileStep(name, type, command, prompt, model) ==
    [Name |-> name, Type |-> type, Command |-> command, Prompt |-> prompt,
     Model |-> model]

\* the delimiter of a Go raw string literal, the backtick, which a string of
\* this module cannot hold
Backtick == "BACKTICK"

Hi == <<"h", "i">>
WithBacktick == <<"h", Backtick, "i">>

\* one step of every shape Validate tells apart, and prompts with a backtick
CompileSteps ==
    { CompileStep("s", "shell", Hi, <<>>, ""),
      CompileStep("s", "shell", <<>>, <<>>, ""),
      CompileStep("", "shell", Hi, <<>>, ""),
      CompileStep("s", "http", <<>>, <<>>, ""),
      CompileStep("s", "llm", <<>>, Hi, "m"),
      CompileStep("s", "llm", <<>>, <<>>, "m"),
      CompileStep("s", "llm", <<>>, Hi, ""),
      CompileStep("s", "llm", <<>>, WithBacktick, "m"),
      CompileStep("s", "local_llm", <<>>, Hi, "m"),
      CompileStep("s", "local_llm", <<>>, <<>>, "m"),
      CompileStep("s", "local_llm", <<>>, Hi, ""),
      CompileStep("s", "local_llm", <<>>, WithBacktick, "m") }

RECURSIVE StepSeqs(_)
StepSeqs(n) ==
    IF n = 0 THEN {<<>>}
    ELSE StepSeqs(n - 1)
         \cup {Append(ss, st) : ss \in StepSeqs(n - 1), st \in CompileSteps}

CompileWorkflows ==
    {[Name |-> name, Steps |-> steps] :
        name \in {"", "a", "b"}, steps \in StepSeqs(MaxSteps)}

\* the workflow sets handed to Compile: one or two workflows
CompileInputs ==
    {<<wf>> : wf \in CompileWorkflows}
        \cup {<<wf, other>> : wf \in CompileWorkflows, other \in CompileWorkflows}

\* Validate, the body of the loop over the steps; "" is nil. The case of
\* StepLLM is empty, and a Go case does not fall through to the next one
ValidateStep(step) ==
    IF step.Name = "" THEN "step is missing a name"
    ELSE CASE step.Type = "shell" ->
                IF step.Command = <<>> THEN "shell step missing command" ELSE ""
           [] step.Type = "llm" -> ""
           [] step.Type = "local_llm" ->
                IF step.Prompt = <<>> THEN "llm step missing prompt"
                ELSE IF step.Model = "" THEN "llm step missing model"
                ELSE ""
           [] OTHER -> "unknown step type"

\* the error of the first step of steps that has one
RECURSIVE ValidateSteps(_)
ValidateSteps(steps) ==
    IF steps = <<>> THEN ""
    ELSE IF ValidateStep(Head(steps)) # "" THEN ValidateStep(Head(steps))
    ELSE ValidateSteps(Tail(steps))

\* Workflow.Validate
Validate(wf) ==
    IF wf.Name = "" THEN "workflow name is required"
    ELSE IF Len(wf.Steps) = 0 THEN "workflow must have at least one step"
    ELSE ValidateSteps(wf.Steps)

\* Compile's loop over the workflows: the first validation error
RECURSIVE ValidateAll(_)
ValidateAll(ws) ==
    IF ws = <<>> THEN ""
    ELSE IF Validate(Head(ws)) # "" THEN Validate(Head(ws))
    ELSE ValidateAll(Tail(ws))

\* the raw string literal the generator writes for the prompt of a step
PromptLiteral(step) == <<Backtick>> \o step.Prompt \o <<Backtick>>

\* generator.Generate: the wait-for table and, for every step with a model
\* body, the prompt literal; the error it returns is always nil
GeneratedCode(ws) ==
    [emitted |-> TRUE,
     stepKeyMap |-> stepKeyMap(ws),
     literals |-> [id \in {d \in StepIds(ws) : HasLLMBody(ws[d[1]].Steps[d[2]])}
                      |-> PromptLiteral(ws[id[1]].Steps[id[2]])]]

\* Compile is called
CompileCall(ws) ==
    /\ compile.pc = "idle"
    /\ compile' = [compile EXCEPT !.pc = "validate", !.wfs = ws]
    /\ UNCHANGED nonCompileVars

\* Compile: the validation loop
CompileValidate ==
    /\ compile.pc = "validate"
    /\ compile' = IF ValidateAll(compile.wfs) # ""
                  THEN [compile EXCEPT !.pc = "failed",
                                       !.err = ValidateAll(compile.wfs)]
                  ELSE [compile EXCEPT !.pc = "generate"]
    /\ UNCHANGED nonCompileVars

\* Compile: generator.Generate
CompileGenerate ==
    /\ compile.pc = "generate"
    /\ compile' = [compile EXCEPT !.pc = "generated",
                                  !.code = GeneratedCode(compile.wfs)]
    /\ UNCHANGED nonCompileVars

CompileNext ==
    \/ \E ws \in CompileInputs : CompileCall(ws)
    \/ CompileValidate
    \/ CompileGenerate

CompileSpec == WorkerStart /\ [][CompileNext]_vars

\* the steps of the workflows Compile was given
CompiledSteps == {compile.wfs[id[1]].Steps[id[2]] : id \in StepIds(compile.wfs)}

ModelStep(step) == step.Type \in {"llm", "local_llm"}

-----------------------------------------------------------------------------
(* Properties.                                                             *)

AwaitedKey(w) == waitForKey(wfs, CurStep(w).WaitFor)
Published(k) == k \in DOMAIN sendLog
Last(q) == q[Len(q)]
Ended == exited \/ mainPc = "done"
\* the step of the producer workflow that a source-form key names
ProducerStep(waitFor) ==
    {id \in StepIds(wfs) : OriginalKey(wfs, id[1], id[2]) = waitFor}

\* C1: when one task fails (shell, inference, wait-for error or wait-for
\* timeout), every other task that still has steps to run can go on: the
\* process has not been ended under it.
C1_FailureIsolation ==
    \A w \in Tasks : failure[w] # "" =>
        \A v \in Tasks \ {w} : ~Finished(v) => ~exited

\* C2: once a task has failed, a run that has ended has written the artifact.
C2_ArtifactWrittenAfterFailure ==
    ((\E w \in Tasks : failure[w] # "") /\ Ended) => artifact # NoArtifact

\* C3: a task that failed on a step, whatever the cause, has published a
\* message carrying the error on that step's own signal key.
C3_FailurePublishedOnOwnKey ==
    \A w \in Tasks : failure[w] # "" =>
        LET k == StepKey(wfs, w, cur[w])
        IN Published(k) /\ Last(sendLog[k]).Err # <<>>

\* C4: every message a wait gate has taken from key K was published on K
\* before, and no more waits have returned on K than publications were made.
C4_PublishBeforeWaitReturns ==
    \A r \in recvLog :
        /\ Published(r.key)
        /\ \E j \in 1..Len(sendLog[r.key]) : sendLog[r.key][j] = r.msg
        /\ Cardinality({q \in recvLog : q.key = r.key}) <= Len(sendLog[r.key])

C4_Witness ==
    \E r \in recvLog : r.msg.Err = <<>> /\ r.msg.Val # <<>> /\ r.w = 2

\* C5: when a wait gate on P.s lets the task through, the variable map holds
\* under the source-form key "P.s" a value the producer step P.s published,
\* and a command that embeds {{P.s}} is rendered with that value.
C5_WaitStoresPublishedValue ==
    [][\A w \in Tasks :
          (phase[w] = "wait" /\ phase'[w] # "wait" /\ ~exited') =>
            LET step == CurStep(w)
            IN \E id \in ProducerStep(step.WaitFor) :
               \E j \in 1..Len(Get(sendLog, StepKey(wfs, id[1], id[2]))) :
                  LET v == sendLog[StepKey(wfs, id[1], id[2])][j].Val
                  IN /\ step.WaitFor \in DOMAIN ctx'[w]
                     /\ ctx'[w][step.WaitFor] = v
                     /\ (<<w, cur[w]>> \in dispatched' /\ step.Command = Embed(step.WaitFor))
                            => rendered'[w] = <<"e", " ">> \o v]_vars

C5_Witness ==
    \E r \in recvLog :
        /\ r.msg.Val # <<>>
        /\ phase[r.w] = "shell" /\ cur[r.w] = r.i
        /\ ctx[r.w][wfs[r.w].Steps[r.i].WaitFor] = r.msg.Val
        /\ rendered[r.w] = <<"e", " ">> \o r.msg.Val

\* C6: when several steps wait on the same key and the key has been
\* published, each of those waits can return: in the running process a step
\* waiting on a published key finds a message in the key's channel.
C6_EveryWaiterObserves ==
    \A w \in Tasks :
        (~exited /\ phase[w] = "wait" /\ Published(AwaitedKey(w))) =>
            signals[AwaitedKey(w)] # <<>>

\* C7: a waiter left behind by a failed workflow does not impede shutdown:
\* while a step waits on a key of a workflow that failed before publishing
\* it, the run can still take a step towards the barrier and the artifact.
C7_OrphanedWaitersDoNotImpedeShutdown ==
    \A w \in Tasks :
        (/\ ~exited
         /\ phase[w] = "wait"
         /\ ~Published(AwaitedKey(w))
         /\ \E id \in ProducerStep(CurStep(w).WaitFor) : phase[id[1]] = "failed")
            => ENABLED Next

\* C8: a gate with wait_timeout = 0 is left only after its key was published;
\* a timeout failure happens only at a gate with wait_timeout = T > 0 whose T
\* seconds have passed, and it ends the process; and every gate with T > 0 is
\* left by a receive or ends in the fatal failure.
C8_WaitTimeoutSemantics ==
    /\ [][\A w \in Tasks :
            (/\ phase[w] = "wait"
             /\ CurStep(w).WaitTimeout = 0
             /\ (phase'[w] # "wait" \/ failure'[w] # failure[w]))
                => Published(AwaitedKey(w))]_vars
    /\ [][\A w \in Tasks :
            (failure[w] = "" /\ failure'[w] = "wait_timeout")
                => /\ phase[w] = "wait"
                   /\ CurStep(w).WaitTimeout > 0
                   /\ timer[w] = 0
                   /\ exited']_vars
    /\ \A w \in TaskIds :
          (phase[w] = "wait" /\ CurStep(w).WaitTimeout > 0)
              ~> (exited \/ phase[w] # "wait")

C8_Witness ==
    \E w \in Tasks :
        /\ failure[w] = "wait_timeout"
        /\ ~Published(AwaitedKey(w))
        /\ AwaitedKey(w) = CurStep(w).WaitFor

BodyFailed(id) == failure[id[1]] \in {"shell", "llm"} /\ cur[id[1]] = id[2]

Skips(w) == <<w, cur[w]>> \in skipped' /\ <<w, cur[w]>> \notin skipped

\* C10 as stated: a step whose `if` is false has no effect: no channel entry,
\* no write to the variable map, no publication, also when it has a wait-for.
C10_SkippedStepHasNoEffect ==
    [][\A w \in Tasks : Skips(w) =>
          /\ ctx'[w] = ctx[w]
          /\ signalValues' = signalValues
          /\ sendLog' = sendLog]_vars

\* C10 amended: a step whose `if` is false adds no channel entry and
\* publishes nothing, then or later, and writes no variable, except that a
\* step with a wait-for has first stored the value it received under the
\* source-form key.
C10_SkippedStepEffect ==
    /\ [](\A id \in skipped :
            /\ StepKey(wfs, id[1], id[2]) \notin DOMAIN signalValues
            /\ ~Published(StepKey(wfs, id[1], id[2]))
            /\ artifact # NoArtifact =>
                  StepKey(wfs, id[1], id[2]) \notin DOMAIN artifact.channels)
    /\ [][\A w \in Tasks : Skips(w) =>
            /\ signalValues' = signalValues
            /\ sendLog' = sendLog
            /\ IF CurStep(w).WaitFor = ""
               THEN ctx'[w] = ctx[w]
               ELSE \E r \in recvLog' \ recvLog :
                       ctx'[w] = Set(ctx[w], CurStep(w).WaitFor, r.msg.Val)]_vars

C10_Witness ==
    /\ artifact # NoArtifact
    /\ \E id \in skipped :
          /\ wfs[id[1]].Steps[id[2]].WaitFor # ""
          /\ wfs[id[1]].Steps[id[2]].WaitFor \in DOMAIN ctx[id[1]]
    /\ \E id \in skipped : wfs[id[1]].Steps[id[2]].WaitFor = ""

\* the steps a task has completed: dispatched, and the task has moved past
\* them, finished after them or failed in them
Completed ==
    {id \in dispatched :
        \/ cur[id[1]] > id[2]
        \/ (cur[id[1]] = id[2] /\ Finished(id[1]))}

\* C11: publication is single-shot: no signal key ever receives two
\* publications, whatever step kind publishes on it.
C11_SingleShotPublication ==
    \A k \in DOMAIN sendLog : Len(sendLog[k]) <= 1

\* C12: in the artifact channels[K] holds the message last published on K,
\* for every key that was published on, also when a waiter took the message
\* from the queue or the queue was full when it was published.
C12_ChannelsHoldLastPublished ==
    artifact.written =>
        \A k \in DOMAIN sendLog :
            /\ k \in DOMAIN artifact.channels
            /\ artifact.channels[k].val = Last(sendLog[k]).Val
            /\ artifact.channels[k].err =
                  (IF Last(sendLog[k]).Err = <<>> THEN Null ELSE Last(sendLog[k]).Err)

C12_Witness ==
    /\ artifact.written
    /\ \E r \in recvLog :
          /\ signals[r.key] = <<>>
          /\ artifact.channels[r.key].val = r.msg.Val
    /\ \E k \in DOMAIN sendLog :
          /\ Len(sendLog[k]) = 2
          /\ signals[k] = <<sendLog[k][1]>>
          /\ sendLog[k][1] # sendLog[k][2]
          /\ artifact.channels[k].val = sendLog[k][2].Val

\* the variables a task has written up to and including step n: outputs of
\* the steps it ran and the source-form keys of the gates it passed
WrittenUpTo(w, n) ==
    {wfs[w].Steps[i].Output : i \in {j \in 1..n : <<w, j>> \in dispatched
                                       /\ wfs[w].Steps[j].Output # ""}}
      \cup {wfs[w].Steps[i].WaitFor : i \in {j \in 1..n : wfs[w].Steps[j].WaitFor # ""}}

\* contexts has an entry for a workflow exactly when its task ran to the end,
\* and the entry is the task's whole variable map
ContextsOfCompletedOnly ==
    \A w \in Tasks :
        /\ (WfKey(wfs, w) \in DOMAIN artifact.contexts) <=> phase[w] = "done"
        /\ phase[w] = "done" =>
              /\ artifact.contexts[WfKey(wfs, w)] = ctx[w]
              /\ DOMAIN ctx[w] = WrittenUpTo(w, Len(wfs[w].Steps))
        /\ phase[w] = "failed" =>
              /\ StepKey(wfs, w, cur[w]) \in DOMAIN artifact.channels
              /\ artifact.channels[StepKey(wfs, w, cur[w])].err # Null

C14_ArtifactExactlyOnce ==
    [][/\ exited' => artifact'.written
       /\ artifact' # artifact =>
             /\ ~artifact.written
             /\ \A w \in Tasks : Finished(w)
             /\ closedLlamas = localLlamas]_vars

\* the transition in which task w starts the body of step i
Starts(w, i) == <<w, i>> \in dispatched' /\ <<w, i>> \notin dispatched

\* C15: a task takes its steps strictly in declared order, one at a time:
\* the step it starts or skips is the one after those it has already taken;
\* and when step k starts, the variable map holds every output the steps
\* before k wrote, with the value written, and a command embedding such a
\* variable is rendered with it.
C15_StepsInOrderSeePriorWrites ==
    [][\A w \in Tasks :
          /\ cur'[w] \in {cur[w], cur[w] + 1}
          /\ \A i \in 1..Len(wfs[w].Steps) :
                (Starts(w, i) \/ (<<w, i>> \in skipped' \ skipped)) =>
                    /\ i = cur[w]
                    /\ \A j \in 1..(i - 1) : <<w, j>> \in dispatched \cup skipped
                    /\ \A j \in (i + 1)..Len(wfs[w].Steps) :
                          <<w, j>> \notin dispatched' \cup skipped'
          /\ \A i \in 1..Len(wfs[w].Steps) : Starts(w, i) =>
                \A j \in 1..(i - 1) :
                    LET out == wfs[w].Steps[j].Output
                    IN (<<w, j>> \in dispatched /\ out # "") =>
                          /\ out \in DOMAIN ctx'[w]
                          /\ ctx'[w][out] = Last(sendLog[StepKey(wfs, w, j)]).Val
                          /\ wfs[w].Steps[i].Command = Embed(out) =>
                                rendered'[w] = <<"e", " ">> \o ctx'[w][out]]_vars

C15_Witness ==
    \E w \in Tasks :
        /\ cur[w] = 2 /\ phase[w] = "shell"
        /\ <<w, 1>> \in dispatched /\ <<w, 2>> \in dispatched
        /\ wfs[w].Steps[1].Output = "x"
        /\ wfs[w].Steps[2].Command = Embed("x")
        /\ "x" \in DOMAIN ctx[w]
        /\ ctx[w]["x"] # <<>>
        /\ rendered[w] = <<"e", " ">> \o ctx[w]["x"]

\* the steps that carry a wait_for naming an existing step
ValidWaits ==
    {id \in StepIds(wfs) :
        /\ wfs[id[1]].Steps[id[2]].WaitFor # ""
        /\ ProducerStep(wfs[id[1]].Steps[id[2]].WaitFor) # {}}

\* C16: every wait_for that names an existing step W.S resolves to the
\* qualified id of that step, and in the artifact that id is in channels,
\* carrying without error a value the producer step produced.
C16_IdentifierRoundTrip ==
    \A c \in ValidWaits :
        LET waitFor == wfs[c[1]].Steps[c[2]].WaitFor
            k       == waitForKey(wfs, waitFor)
        IN /\ \E id \in ProducerStep(waitFor) : k = StepKey(wfs, id[1], id[2])
           /\ artifact.written =>
                 /\ k \in DOMAIN artifact.channels
                 /\ artifact.channels[k].err = Null
                 /\ \E j \in 1..Len(Get(sendLog, k)) :
                       /\ sendLog[k][j].Err = <<>>
                       /\ artifact.channels[k].val = sendLog[k][j].Val

\* the tasks running the conditional workflow to its end without failure
ConditionalDone ==
    {w \in Tasks : wfs[w] = Conditional /\ phase[w] = "done"}

\* C17: when the conditional workflow has run, the step guarded by
\* mode == 'production' was executed and the one guarded by mode == 'debug'
\* skipped: conditional_result is non-empty, negative_result is absent, and
\* the workflow has exactly two channel entries.
C17_ConditionalGating ==
    \A w \in ConditionalDone :
        /\ <<w, 2>> \in dispatched
        /\ <<w, 3>> \in skipped
        /\ Get(ctx[w], "conditional_result") # <<>>
        /\ Get(ctx[w], "negative_result") = <<>>
        /\ Cardinality({i \in 1..3 : StepKey(wfs, w, i) \in DOMAIN signalValues}) = 2

\* C18: whatever order the request frames are written and the responses
\* arrive in, a SendRequest call is only ever handed, and only ever returns,
\* the response that carries the id of its own request, and a successful
\* one holds the result for the call's own prompt.
C18_ResponseMatchesRequest ==
    \A c \in Callers :
        /\ \A i \in 1..Len(call[c].ch) : call[c].ch[i].ID = call[c].id
        /\ call[c].pc = "done" =>
              /\ call[c].ret.ID = call[c].id
              /\ call[c].ret.Err = "" => call[c].ret.Val = Generate(PromptOf(c))

C18_Witness ==
    \E c, d \in Callers :
        /\ call[c].pc = "done" /\ call[d].pc = "done"
        /\ call[c].id = "1" /\ call[d].id = "2"
        /\ Len(reqLog) >= 2
        /\ reqLog[1].ID = "2" /\ reqLog[2].ID = "1"
        /\ call[c].ret.Val = Generate(PromptOf(c))
        /\ call[d].ret.Val = Generate(PromptOf(d))

\* the reader has consumed bytes that do not decode
GarbageRead ==
    /\ \E i \in 1..Len(respLog) : respLog[i] = Garbage
    /\ \A j \in 1..Len(stdout) : stdout[j] # Garbage

\* C19: once the background reader has hit a decode error it has exited,
\* and from then on every SendRequest call that waits for its response stays
\* blocked: it never returns and nothing is delivered to it.
C19_DecodeErrorLeavesWaitersBlocked ==
    /\ [](GarbageRead => readerPc = "decode_error")
    /\ [][\A c \in Callers :
            (GarbageRead /\ call[c].pc = "wait" /\ call[c].ch = <<>>) =>
                (call'[c].pc = "wait" /\ call'[c].ch = <<>>)]_vars

C19_Witness ==
    /\ GarbageRead
    /\ readerPc = "decode_error"
    /\ \E c \in Callers :
          /\ call[c].pc = "wait"
          /\ call[c].ch = <<>>
          /\ \E i \in 1..Len(stdout) : stdout[i].ID = call[c].id

\* C20: once the worker server has left its loop, every request frame that
\* was written to its standard input has exactly one response frame, carrying
\* the request's id.
C20_OneResponsePerRequest ==
    serverPc = "exited" =>
        \A i \in 1..Len(reqLog) :
            Cardinality({j \in 1..Len(respLog) :
                            respLog[j].json /\ respLog[j].ID = reqLog[i].ID}) = 1

\* C21: a close() in progress has closed the worker's standard input, it
\* returns only after the worker has exited, and while it waits the shutdown
\* can go on: the server loop can take a step towards its exit, the reader
\* can make room for it, or close() can return.
C21_CloseEndsWorker ==
    /\ closePc # "idle" => stdinClosed
    /\ closePc = "returned" => serverPc = "exited"
    /\ closePc = "waiting" =>
          \/ ENABLED CloseReturns
          \/ ENABLED ServerScan
          \/ ENABLED ServerRespond
          \/ ENABLED ReadLoop

\* C22: in in-process mode at most one task is inside the native prediction
\* at any instant, whichever runtime instance it calls through.
C22_OnePredictionAtATime ==
    Cardinality({t \in LlamaTasks : genPc[t] = "predict"}) <= 1

\* two tasks with their own runtimes want to predict: one is inside the
\* prediction, the other waits at predictMu.Lock()
C22_Witness ==
    \E t, u \in LlamaTasks :
        /\ genPc[t] = "predict"
        /\ genPc[u] = "lock"
        /\ predictMu = t

\* C23: a model file with a given absolute path is loaded at most once in the
\* process, and every task that uses it holds the same handle.
C23_ModelLoadedOncePerProcess ==
    /\ \A i, j \in 1..Len(loaded) : loaded[i] = loaded[j] => i = j
    /\ \A t, u \in LlamaTasks :
          \A abs \in DOMAIN models[t] \cap DOMAIN models[u] :
              models[t][abs] = models[u][abs]

\* C24: a process started by a worker client has no LLMC_SUBPROCESS entry
\* and has LLMC_WORKER=1 in its environment, it never spawns a process
\* itself, and so no process is more than one spawn away from the one the
\* user started.
C24_WorkerNeverSpawns ==
    \A p \in 1..Len(procs) :
        /\ procs[p].parent # 0 =>
              /\ \A i \in 1..Len(procs[p].env) :
                    procs[p].env[i].name # "LLMC_SUBPROCESS"
              /\ IsWorkerProcess(procs[p].env)
              /\ \A q \in 1..Len(procs) : procs[q].parent # p
        /\ Depth(p) <= 1

\* a parent whose environment names LLMC_SUBPROCESS twice has spawned a
\* worker, and the worker has created the runtime of its handler
C24_Witness ==
    \E p \in 1..Len(procs) :
        /\ procs[p].parent # 0
        /\ procs[p].runtimes = 1
        /\ Len(SelectSeq(procs[procs[p].parent].env,
                         LAMBDA e : e.name = "LLMC_SUBPROCESS")) = 2

\* C25: sanitizing the sanitizer's output gives that output again.
C25_SanitizeIdempotent ==
    Len(sanitized) = 3 => sanitized[3] = sanitized[2]

\* C26: the sanitizer's result holds no carriage return, no tab, no NUL and
\* no double quote that would close a double-quoted shell argument.
C26_SanitizedIsQuoteSafe ==
    Len(sanitized) >= 2 =>
        \A i \in 1..Len(sanitized[2]) :
            /\ sanitized[2][i] \notin {"\r", "\t", "NUL"}
            /\ sanitized[2][i] = "\"" => Escaped(sanitized[2], i)

\* C27: a workflow set with a model step, remote or local, that has an empty
\* prompt or an empty model does not pass validation, and no code is
\* generated for it.
C27_ModelStepsNeedPromptAndModel ==
    (\E step \in CompiledSteps :
        ModelStep(step) /\ (step.Prompt = <<>> \/ step.Model = ""))
        => compile.pc \notin {"generate", "generated"} /\ ~compile.code.emitted

\* C28: no program is emitted from a model step whose prompt contains the
\* delimiter of the raw string literal.
C28_DelimiterInPromptFails ==
    (\E step \in CompiledSteps :
        ModelStep(step) /\ \E i \in 1..Len(step.Prompt) : step.Prompt[i] = Backtick)
        => ~compile.code.emitted

\* C30: a workflow set in which two workflows share a name does not pass
\* validation, so in every set that does, a source-form key W.S names
\* exactly one step.
C30_DuplicateNamesRejected ==
    compile.pc \in {"generate", "generated"} =>
        /\ \A w, v \in 1..Len(compile.wfs) :
              compile.wfs[w].Name = compile.wfs[v].Name => w = v
        /\ \A id, other \in StepIds(compile.wfs) :
              OriginalKey(compile.wfs, id[1], id[2])
                  = OriginalKey(compile.wfs, other[1], other[2]) => id = other

\* no step of any workflow has a wait-for
Independent ==
    \A id \in StepIds(wfs) : wfs[id[1]].Steps[id[2]].WaitFor = ""

\* task w is where it was: same step, same phase, same variable map
Still(w) ==
    /\ cur'[w] = cur[w]
    /\ phase'[w] = phase[w]
    /\ ctx'[w] = ctx[w]

\* a variable map changes only in a step of its own task, during which every
\* other task stays where it was
OwnMapOnly ==
    \A v \in Tasks :
        ctx'[v] # ctx[v] =>
            /\ phase[v] \notin {"done", "failed"}
            /\ <<cur'[v], phase'[v]>> # <<cur[v], phase[v]>>
            /\ \A w \in Tasks \ {v} : Still(w)

\* C29 as stated: with no wait-for between the workflows, a step of one
\* workflow changes only that workflow's variable map, and the artifact's
\* contexts holds the key of each of the workflows.
C29_ParallelIsolation ==
    [][Independent =>
          /\ OwnMapOnly
          /\ artifact'.written =>
                \A w \in Tasks : WfKey(wfs, w) \in DOMAIN artifact'.contexts]_vars

\* C29 amended: with no wait-for between the workflows, a step of one
\* workflow changes only that workflow's variable map, and the artifact's
\* contexts holds the key of exactly the workflows that ran all their steps
\* without a failed command or inference, with the map the task ended with.
C29_IsolationAndContextsOfCompleted ==
    [][Independent =>
          /\ OwnMapOnly
          /\ artifact'.written =>
                \A w \in Tasks :
                    /\ WfKey(wfs, w) \in DOMAIN artifact'.contexts
                          <=> failure'[w] = ""
                    /\ failure'[w] = "" =>
                          artifact'.contexts[WfKey(wfs, w)] = ctx'[w]]_vars

\* two workflows without wait-for have both written a variable of their own,
\* the maps differ, and the artifact holds both keys
C29_Witness ==
    /\ Independent
    /\ artifact.written
    /\ \A w \in Tasks :
          /\ WfKey(wfs, w) \in DOMAIN artifact.contexts
          /\ DOMAIN ctx[w] # {}
    /\ ctx[1] # ctx[2]

\* C31: a task about to publish is never held up: whatever the queue of its
\* key holds and whether or not any step waits for the key, the step that
\* publishes can be taken.
C31_PublishNeverBlocks ==
    \A w \in Tasks :
        ~exited =>
            /\ phase[w] = "shell" => ENABLED ShellReturn(w)
            /\ phase[w] = "llm" => ENABLED LLMReturn(w)

\* a key nobody waits for was published twice: the second publish found the
\* queue full, and the task went on to its end
C31_Witness ==
    \E w \in Tasks :
        LET k == StepKey(wfs, w, 1)
        IN  /\ k \in DOMAIN sendLog
            /\ Len(sendLog[k]) = 2
            /\ Len(signals[k]) = ChanCap
            /\ recvLog = {}
            /\ \A id \in StepIds(wfs) :
                  waitForKey(wfs, wfs[id[1]].Steps[id[2]].WaitFor) # k
            /\ phase[w] = "done"

\* the steps whose wait gate receives on key k
WaitersOn(k) ==
    {id \in StepIds(wfs) :
        /\ wfs[id[1]].Steps[id[2]].WaitFor # ""
        /\ waitForKey(wfs, wfs[id[1]].Steps[id[2]].WaitFor) = k}

Received(k) == \E r \in recvLog : r.key = k

\* C32: publisher and subscriber use one queue per key. A task that enters
\* its wait on a key after the key was published finds the published value
\* at the head of the key's queue, and the one wait on a key returns the
\* value first published on it.
C32_OneQueuePerKey ==
    [][\A w \in Tasks :
          /\ (/\ phase[w] = "start"
              /\ phase'[w] = "wait"
              /\ Published(AwaitedKey(w))
              /\ ~Received(AwaitedKey(w)))
                => /\ signals'[AwaitedKey(w)] # <<>>
                   /\ Head(signals'[AwaitedKey(w)]) = sendLog[AwaitedKey(w)][1]
          /\ \A r \in recvLog' \ recvLog :
                Cardinality(WaitersOn(r.key)) = 1 => r.msg = sendLog[r.key][1]]_vars

\* the only waiter of a key has received, the key was published before, and
\* the queue of the key is empty again
C32_Witness ==
    \E r \in recvLog :
        /\ Cardinality(WaitersOn(r.key)) = 1
        /\ Published(r.key)
        /\ r.msg = sendLog[r.key][1]
        /\ r.msg.Err = <<>>
        /\ signals[r.key] = <<>>
        /\ ~exited

\* C33: the pending table holds only ids of calls still awaiting a response:
\* the id of a SendRequest call that has returned, with a result or with an
\* error, is not in it.
C33_PendingOnlyAwaiting ==
    \A c \in Callers :
        call[c].pc \in {"done", "err"} => call[c].id \notin DOMAIN pending

\* C34: no two calls into the native backend, model load or prediction, run
\* at the same time in the process.
C34_NativeCallsSerialized ==
    Cardinality({t \in LlamaTasks : genPc[t] \in {"load", "predict"}}) <= 1

\* C35: for every model spec the worker resolves, from what the parent sent
\* it, the path the parent resolved from the spec.
C35_SamePathInBothModes ==
    remote.pc = "served" => remote.worker = remote.parent

\* C36: for every key, the value the artifact records in channels equals the
\* value any consumer received from a successful wait on the key.
C36_ChannelsMatchReceived ==
    artifact.written =>
        \A r \in recvLog :
            r.msg.Err = <<>> =>
                /\ r.key \in DOMAIN artifact.channels
                /\ artifact.channels[r.key].val = r.msg.Val

\* every wait-for of the program has a wait-timeout above zero
AllGatesTimed ==
    \A id \in StepIds(wfs) :
        wfs[id[1]].Steps[id[2]].WaitFor # "" =>
            wfs[id[1]].Steps[id[2]].WaitTimeout > 0

\* C37: when every wait-for has a wait-timeout above zero and every shell and
\* inference call returns, the run ends: main passes the barrier and
\* completes, or the process ends with a fatal failure; no task stays
\* blocked at its gate forever.
C37_TimedProgramsTerminate ==
    AllGatesTimed =>
        /\ <>(exited \/ mainPc = "done")
        /\ \A w \in TaskIds : phase[w] = "wait" ~> (exited \/ phase[w] # "wait")

\* a program whose gates all have a timeout and whose consumer waited on a
\* key that was never published has ended with the fatal failure
C37_Witness ==
    /\ AllGatesTimed
    /\ exited
    /\ \E w \in Tasks :
          /\ failure[w] = "wait_timeout"
          /\ CurStep(w).WaitTimeout > 0
          /\ ~Published(AwaitedKey(w))

\* C38: Pool.Get is round-robin: among any Size() consecutive Get calls, also
\* calls made from several goroutines at once, every client of the pool is
\* returned exactly once.
C38_RoundRobin ==
    \A i \in 1..(Len(pool.handed) - PoolSize + 1) :
        {pool.handed[j] : j \in i..(i + PoolSize - 1)} = Clients

\* two calls that have started, with one output name and two output directories
SameNameOtherDir(c, d) ==
    /\ c # d
    /\ build.pc[c] # "idle"
    /\ build.pc[d] # "idle"
    /\ OutputNameOf(build.opts[c]) = OutputNameOf(build.opts[d])
    /\ OutputDirOf(build.opts[c]) # OutputDirOf(build.opts[d])

\* C39: two BuildFromCode calls with the same OutputName and different output
\* directories do not interfere: the binary of each call holds the code
\* given to that call, and the temporary source file a call wrote is removed
\* by that call only.
C39_ConcurrentBuildsIndependent ==
    \A c, d \in Builders :
        SameNameOtherDir(c, d) =>
            /\ build.pc[c] \in {"built", "done"} =>
                   build.files[BinaryPath(build.opts[c])].code = build.code[c]
            /\ \A e \in build.removed : e.writer = c => e.by = c
====
